---- MODULE Spec2Model ----
(***************************************************************************)
(* Content-supply core of the pop node (package supply): the Dispatch      *)
(* fan-out and its responses, the Validator's authorization table, the     *)
(* Network and its inbound request handler, the content index with the     *)
(* multistore behind it, the transport configurer, the transfer-event      *)
(* subscriptions, the construction of the Supply and the region presets.   *)
(*                                                                         *)
(* Peer identities are naturals: Self is the local host, 1..NPeers are     *)
(* remote peers.  Payload CIDs are 1..NCids.  What the libp2p host and the *)
(* data-transfer manager answer (the connection list, the peer-store, the  *)
(* outcome of a stream open or write, transfer events) is an input of the  *)
(* call that asks for it.                                                  *)
(***************************************************************************)
EXTENDS Naturals, Sequences, FiniteSets

VARIABLES
    regions,     \* Supply.regions: the regions the node was built with
    auth,        \* Validator.auth: payload CID -> set of authorized peers
    authLog,     \* history: every <<cid, peer>> passed to Authorize so far
    dispatched,  \* history: payload CIDs Dispatch was called with so far
    msNext,      \* multistore: the last store identifier handed out by Next()
    index,       \* Store (namespace /supply): payload CID -> ContentRecord labels
    pulls,       \* data-transfer manager: pull channels opened by HandleRequest
    stores,      \* multistore: the identifiers of the stores it holds
    responses,   \* the Response of every Dispatch so far, in call order
    events,      \* data-transfer manager: events published, not yet delivered
    thread,      \* data-transfer manager: where its callback thread stands
    mu,          \* Validator.mu: the caller that holds the mutex, or Unlocked
    calls,       \* per caller thread: the call it is inside and how far it got
    net,         \* Network: its receiver and the protocols with a stream handler
    dt,          \* data-transfer manager: what the node registered with it
    registered,  \* history: payload CIDs registered and not removed since
    last         \* the most recent call: its arguments and what it returned

vars == <<regions, auth, authLog, dispatched, msNext, index, pulls,
          stores, responses, events, thread, mu, calls, net, dt, registered, last>>

----------------------------------------------------------------------------
(* Bounds of the model *)

NPeers == 8          \* remote peers a Dispatch can be connected to
NSmallPeers == 2     \* remote peers of the long-running specification
NCids == 2           \* payload CIDs
MaxExtraConns == 1   \* connections beyond one per peer (or to the host itself)
MaxFaults == 1       \* peers deviating from the default environment per call
MaxStores == 1       \* store identifiers the multistore hands out
MaxResponses == 1    \* Dispatch calls whose Response is followed
MaxDispatches == 2   \* Dispatch calls of the long-running specification
MaxEvents == 1       \* published events waiting for the callback thread
MaxRecords == 2      \* records one Response hands to its caller
MaxNames == 2        \* region names in a node's configuration
NCallers == 2        \* threads that call into the node at the same time
MaxInbound == 2      \* inbound requests handled step by step

(* Program constants *)

Self == 0
MaxReceiverCount == 7
RequestProtocol == "/myel/supply/dispatch/1.0"
ErrNoPeers == "no peers available for supply"
NoErr == "nil"

Peers == 1..NPeers
Callers == 1..NCallers
SmallPeers == 1..NSmallPeers
CIDs == 1..NCids
Sizes == {100}
RegionNames == {"Global", "Europe", "Asia"}

Range(s) == {s[i] : i \in 1..Len(s)}
Min(a, b) == IF a < b THEN a ELSE b

----------------------------------------------------------------------------
(* Regions.  A Region is its Name, its Code and its StorageMiners (PPB, the   *)
(* price per byte, is read by nothing here and is left out); a RegionCode is *)
(* written by the name of its constant, a miner identifier as the sequence   *)
(* of its characters.                                                        *)

PresetNames == {"Global", "Asia", "Africa", "SouthAmerica", "NorthAmerica",
                "Europe", "Oceania"}

asia ==
    [Name |-> "Asia", Code |-> "AsiaRegion",
     StorageMiners |-> <<
        <<"f", "0", "1", "5", "9", "9", "6", "1">>,
        <<"f", "0", "2", "4", "2", "1", "5", "2">>,
        <<"f", "0", "2", "2", "5", "6", "7", "6">>,
        <<"f", "0", "1", "6", "5", "5", "3", "9">>,
        <<"f", "0", "2", "1", "6", "1", "3", "8">>,
        <<"f", "0", "1", "2", "7", "2">>
     >>]

africa ==
    [Name |-> "Africa", Code |-> "AfricaRegion",
     StorageMiners |-> <<>>]

southAmerica ==
    [Name |-> "SouthAmerica", Code |-> "SouthAmericaRegion",
     StorageMiners |-> <<>>]

northAmerica ==
    [Name |-> "NorthAmerica", Code |-> "NorthAmericaRegion",
     StorageMiners |-> <<
        <<"f", "0", "2", "3", "0", "1">>,
        <<"f", "0", "3", "2", "2", "3">>,
        <<"f", "0", "1", "9", "1", "0", "4">>,
        <<"f", "0", "2", "4", "0", "1">>,
        <<"f", "0", "2", "3", "8", "7">>,
        <<"f", "0", "9", "8", "4", "8">>,
        <<"f", "0", "8", "3", "9", "9">>,
        <<"f", "0", "1", "0", "0", "8", "8">>,
        <<"f", "0", "6", "4", "2", "1", "8">>,
        <<"f", "0", "2", "5", "4", "0">>,
        <<"f", "0", "1", "5", "9", "2", "7">>,
        <<"f", "0", "1", "3", "5", "0", "7", "8">>,
        <<"f", "0", "1", "9", "1", "0", "4">>,
        <<"f", "0", "4", "7", "4", "1", "9">>,
        <<"f", "0", "1", "2", "7", "8">>,
        <<"f", "0", "1", "0", "6", "1", "7">>,
        <<"f", "0", "1", "2", "4", "7">>,
        <<"f", "0", "2", "2", "1", "4", "2">>,
        <<"f", "0", "1", "9", "2", "7", "9">>
     >>]

europe ==
    [Name |-> "Europe", Code |-> "EuropeRegion",
     StorageMiners |-> <<
        <<"f", "0", "1", "2", "4", "0">>,
        <<"f", "0", "1", "2", "3", "4">>,
        <<"f", "0", "2", "2", "3", "5", "2">>,
        <<"f", "0", "9", "9", "6", "0", "8">>,
        <<"f", "0", "2", "5", "7", "6">>,
        <<"f", "0", "2", "3", "4", "6", "7">>,
        <<"f", "0", "3", "6", "2", "4">>,
        <<"f", "0", "6", "2", "3", "5", "3">>,
        <<"f", "0", "8", "1", "3", "2", "3">>,
        <<"f", "0", "8", "4", "0", "3">>,
        <<"f", "0", "1", "0", "4", "4", "6">>,
        <<"f", "0", "1", "2", "7", "7">>,
        <<"f", "0", "2", "2", "1", "6", "3">>
     >>]

oceania ==
    [Name |-> "Oceania", Code |-> "OceaniaRegion",
     StorageMiners |-> <<
        <<"f", "0", "1", "4", "3", "6", "5">>
     >>]

\* Global takes the miners of append(northAmerica, append(europe, oceania))
global ==
    [Name |-> "Global", Code |-> "GlobalRegion",
     StorageMiners |-> northAmerica.StorageMiners
                           \o (europe.StorageMiners \o oceania.StorageMiners)]

\* var Regions: the preset regions by name
Regions ==
    [n \in PresetNames |->
        CASE n = "Global" -> global
          [] n = "Asia" -> asia
          [] n = "Africa" -> africa
          [] n = "SouthAmerica" -> southAmerica
          [] n = "NorthAmerica" -> northAmerica
          [] n = "Europe" -> europe
          [] n = "Oceania" -> oceania]

\* Regions[rstring]: a map read, giving the zero Region for a missing key
RegionsAt(rstring) ==
    IF rstring \in DOMAIN Regions THEN Regions[rstring]
    ELSE [Name |-> "", Code |-> "GlobalRegion", StorageMiners |-> <<>>]

\* ParseRegions, had it skipped the names that are not presets
RECURSIVE ParseRegions_PresetsOnly(_)
ParseRegions_PresetsOnly(list) ==
    IF list = <<>> THEN <<>>
    ELSE LET r == RegionsAt(Head(list))
         IN  (IF r.Name # "" THEN <<r>> ELSE <<>>) \o ParseRegions_PresetsOnly(Tail(list))

\* ParseRegions: the preset of every name that has one, a custom region for
\* every other name
RECURSIVE ParseRegions(_)
ParseRegions(list) ==
    IF list = <<>> THEN <<>>
    ELSE LET r == RegionsAt(Head(list))
         IN  (IF r.Name # "" THEN <<r>>
              ELSE <<[Name |-> Head(list), Code |-> "CustomRegion",
                      StorageMiners |-> <<>>]>>)
             \o ParseRegions(Tail(list))

RegionConfigs == {ParseRegions(<<"Global", "Europe">>)}

\* the names a configuration may list: the presets, a name of the user's and
\* the empty name
ConfigNames == PresetNames \cup {"Mars", ""}

RECURSIVE NameListsOf(_)
NameListsOf(n) ==
    IF n = 0 THEN {<<>>}
    ELSE LET prev == NameListsOf(n - 1)
         IN  prev \cup {Append(l, x) : l \in {q \in prev : Len(q) = n - 1}, x \in ConfigNames}

NameLists == NameListsOf(MaxNames)

\* Request{PayloadCID, Size}
Requests == [PayloadCID : CIDs, Size : Sizes]

----------------------------------------------------------------------------
(* Region protocols and the peer-store *)

\* fmt.Sprintf("%s/%s", proto, r.Name): the pair stands for the joined string
protoRegions(proto, regs) == [i \in 1..Len(regs) |-> <<proto, regs[i].Name>>]

AllProtocols == {<<RequestProtocol, n>> : n \in RegionNames}

\* Peerstore().SupportsProtocols(pid, protos...): the protos the peer-store holds
\* for pid, in the order asked, or an error
SupportsProtocols(ps, pid, protos) ==
    IF ps[pid].err
    THEN [err |-> TRUE, supported |-> <<>>]
    ELSE [err |-> FALSE,
          supported |-> SelectSeq(protos, LAMBDA x : x \in ps[pid].protos)]

----------------------------------------------------------------------------
(* What the host answers during one Dispatch: the peer-store's view of every *)
(* peer and the peers to which a stream open or a write fails.  By default   *)
(* a peer advertises the Europe dispatch protocol and its streams work; a    *)
(* fault makes one peer deviate.                                             *)

FaultKinds == {"other", "pserr", "open", "write"}
Faults == Peers \X FaultKinds

RECURSIVE FaultSets(_)
FaultSets(n) ==
    IF n = 0 THEN {{}}
    ELSE LET prev == FaultSets(n - 1)
         IN  prev \cup {fs \cup {f} : fs \in prev, f \in Faults}

\* the protocols peer p advertises under the faults fs
Advertised(fs, p) ==
    IF <<p, "other">> \in fs
    THEN {<<RequestProtocol, "Asia">>}
    ELSE {<<RequestProtocol, "Europe">>}

EnvOf(fs) ==
    [ps |-> [p \in 0..NPeers |->
                [err |-> <<p, "pserr">> \in fs, protos |-> Advertised(fs, p)]],
     openFail |-> {p \in Peers : <<p, "open">> \in fs},
     writeFail |-> {p \in Peers : <<p, "write">> \in fs}]

NoFaults == {}
FaultInputs == FaultSets(MaxFaults)
\* no fault, or the peer-store failing for the first peer
SmallFaultInputs == {NoFaults, {<<1, "pserr">>}}

(* Network().Conns(): one entry per connection, named by its remote peer.   *)
(* Peers are listed in identity order (the order is the host's); an extra   *)
(* connection is a further connection to a listed peer, next to the first,  *)
(* or one whose remote peer is the host itself, listed first.               *)

Prefix(k) == [i \in 1..k |-> i]
InsertAt(s, j, x) == SubSeq(s, 1, j) \o <<x>> \o SubSeq(s, j + 1, Len(s))

RECURSIVE WithExtras(_, _)
WithExtras(k, e) ==
    IF e = 0 THEN {Prefix(k)}
    ELSE LET prev == WithExtras(k, e - 1)
         IN  prev
             \cup UNION {{InsertAt(s, j, s[j]) : j \in 1..Len(s)} : s \in prev}
             \cup {InsertAt(s, 0, Self) : s \in prev}

ConnListsOf(n) == UNION {WithExtras(k, MaxExtraConns) : k \in 0..n}
ConnLists == ConnListsOf(NPeers)
SmallConnLists == ConnListsOf(NSmallPeers)

----------------------------------------------------------------------------
(* Validator *)

\* Authorize, had it stored a fresh set on every call
Authorize_Overwrite(tbl, k, p) ==
    [c \in DOMAIN tbl \cup {k} |-> IF c = k THEN {p} ELSE tbl[c]]

\* Validator.Authorize: add p to the set of k, creating the set on first use
Authorize(tbl, k, p) ==
    IF k \in DOMAIN tbl
    THEN [tbl EXCEPT ![k] = @ \cup {p}]
    ELSE [c \in DOMAIN tbl \cup {k} |-> IF c = k THEN {p} ELSE tbl[c]]

\* ValidatePush, had it validated a push the way a pull is validated
ValidatePush_AsPull(tbl, sender, voucher, baseCid, selector) ==
    IF baseCid \in DOMAIN tbl /\ sender \in tbl[baseCid]
    THEN [err |-> NoErr, auth |-> tbl]
    ELSE [err |-> "no pushed accepted", auth |-> tbl]

\* Validator.ValidatePush: the error it returns and the table it leaves
ValidatePush(tbl, sender, voucher, baseCid, selector) ==
    [err |-> "no pushed accepted", auth |-> tbl]

\* ValidatePull, had it looked only at the CID
ValidatePull_IgnoresReceiver(tbl, receiver, voucher, baseCid, selector) ==
    IF baseCid \notin DOMAIN tbl THEN [err |-> "unknown CID", auth |-> tbl]
    ELSE [err |-> NoErr, auth |-> tbl]

\* ValidatePull, had the lookup of an unknown CID created its (empty) entry
ValidatePull_CreatesEntry(tbl, receiver, voucher, baseCid, selector) ==
    IF baseCid \notin DOMAIN tbl
    THEN [err |-> "unknown CID",
          auth |-> [c \in DOMAIN tbl \cup {baseCid} |-> IF c = baseCid THEN {} ELSE tbl[c]]]
    ELSE IF receiver \notin tbl[baseCid] THEN [err |-> "not authorized", auth |-> tbl]
    ELSE [err |-> NoErr, auth |-> tbl]

\* ValidatePull, had it reported every refusal as not-authorized
ValidatePull_OneError(tbl, receiver, voucher, baseCid, selector) ==
    IF baseCid \notin DOMAIN tbl \/ receiver \notin tbl[baseCid]
    THEN [err |-> "not authorized", auth |-> tbl]
    ELSE [err |-> NoErr, auth |-> tbl]

\* Validator.ValidatePull: the error it returns (NoErr when the pull is
\* allowed) and the table it leaves
ValidatePull(tbl, receiver, voucher, baseCid, selector) ==
    IF baseCid \notin DOMAIN tbl THEN [err |-> "unknown CID", auth |-> tbl]
    ELSE IF receiver \notin tbl[baseCid] THEN [err |-> "not authorized", auth |-> tbl]
    ELSE [err |-> NoErr, auth |-> tbl]

----------------------------------------------------------------------------
(* Dispatch *)

\* selectProviders, had it not dropped the host's own identity
selectProviders_KeepsSelf(conns, regs, ps) ==
    LET protos == protoRegions(RequestProtocol, regs)
        Keep(pid) ==
            LET s == SupportsProtocols(ps, pid, protos)
            IN  ~(s.err \/ Len(s.supported) = 0)
        peers == SelectSeq(conns, Keep)
    IN  IF Len(peers) = 0 THEN [peers |-> <<>>, err |-> ErrNoPeers]
        ELSE IF Len(peers) > MaxReceiverCount
             THEN [peers |-> SubSeq(peers, 1, MaxReceiverCount), err |-> NoErr]
             ELSE [peers |-> peers, err |-> NoErr]

\* selectProviders, had it kept every peer whose support query did not fail
selectProviders_NoProtoCheck(conns, regs, ps) ==
    LET protos == protoRegions(RequestProtocol, regs)
        Keep(pid) ==
            /\ pid # Self
            /\ ~SupportsProtocols(ps, pid, protos).err
        peers == SelectSeq(conns, Keep)
    IN  IF Len(peers) = 0 THEN [peers |-> <<>>, err |-> ErrNoPeers]
        ELSE IF Len(peers) > MaxReceiverCount
             THEN [peers |-> SubSeq(peers, 1, MaxReceiverCount), err |-> NoErr]
             ELSE [peers |-> peers, err |-> NoErr]

\* Supply.selectProviders: the connected peers, minus the host itself and the
\* peers the peer-store does not report as supporting a region protocol, cut
\* to MaxReceiverCount
selectProviders(conns, regs, ps) ==
    LET protos == protoRegions(RequestProtocol, regs)
        Keep(pid) ==
            /\ pid # Self
            /\ LET s == SupportsProtocols(ps, pid, protos)
               IN  ~(s.err \/ Len(s.supported) = 0)
        peers == SelectSeq(conns, Keep)
    IN  IF Len(peers) = 0 THEN [peers |-> <<>>, err |-> ErrNoPeers]
        ELSE IF Len(peers) > MaxReceiverCount
             THEN [peers |-> SubSeq(peers, 1, MaxReceiverCount), err |-> NoErr]
             ELSE [peers |-> peers, err |-> NoErr]

\* the loop of Dispatch that authorizes every provider for the payload CID
RECURSIVE AuthorizeAll(_, _, _)
AuthorizeAll(tbl, k, providers) ==
    IF providers = <<>> THEN tbl
    ELSE AuthorizeAll(Authorize(tbl, k, Head(providers)), k, Tail(providers))

\* sendAllRequests, had a failing open or write ended the loop
RECURSIVE sendAllRequests_StopsOnFailure(_, _, _)
sendAllRequests_StopsOnFailure(r, peers, env) ==
    IF peers = <<>> THEN [attempts |-> <<>>, streams |-> <<>>, delivered |-> <<>>]
    ELSE LET p == Head(peers)
             rest == sendAllRequests_StopsOnFailure(r, Tail(peers), env)
         IN  IF p \in env.openFail
             THEN [attempts |-> <<p>>, streams |-> <<>>, delivered |-> <<>>]
             ELSE IF p \in env.writeFail
             THEN [attempts |-> <<p>>,
                   streams |-> <<[dest |-> p, wrote |-> FALSE, closed |-> TRUE]>>,
                   delivered |-> <<>>]
             ELSE [rest EXCEPT !.attempts = <<p>> \o @,
                               !.streams = <<[dest |-> p, wrote |-> TRUE, closed |-> TRUE]>> \o @,
                               !.delivered = <<[to |-> p, req |-> r]>> \o @]

\* sendAllRequests, had it closed the stream only after a successful write
RECURSIVE sendAllRequests_ClosesOnSuccess(_, _, _)
sendAllRequests_ClosesOnSuccess(r, peers, env) ==
    IF peers = <<>> THEN [attempts |-> <<>>, streams |-> <<>>, delivered |-> <<>>]
    ELSE LET p == Head(peers)
             rest == sendAllRequests_ClosesOnSuccess(r, Tail(peers), env)
         IN  IF p \in env.openFail
             THEN [rest EXCEPT !.attempts = <<p>> \o @]
             ELSE IF p \in env.writeFail
             THEN [rest EXCEPT !.attempts = <<p>> \o @,
                               !.streams = <<[dest |-> p, wrote |-> FALSE, closed |-> FALSE]>> \o @]
             ELSE [rest EXCEPT !.attempts = <<p>> \o @,
                               !.streams = <<[dest |-> p, wrote |-> TRUE, closed |-> TRUE]>> \o @,
                               !.delivered = <<[to |-> p, req |-> r]>> \o @]

\* Supply.sendAllRequests: per peer, open a stream, write the request, close.
\* attempts: the peers NewRequestStream was called for; streams: the streams
\* that opened; delivered: the requests that reached their peer.
RECURSIVE sendAllRequests(_, _, _)
sendAllRequests(r, peers, env) ==
    IF peers = <<>> THEN [attempts |-> <<>>, streams |-> <<>>, delivered |-> <<>>]
    ELSE LET p == Head(peers)
             rest == sendAllRequests(r, Tail(peers), env)
         IN  IF p \in env.openFail
             THEN [rest EXCEPT !.attempts = <<p>> \o @]
             ELSE IF p \in env.writeFail
             THEN [rest EXCEPT !.attempts = <<p>> \o @,
                               !.streams = <<[dest |-> p, wrote |-> FALSE, closed |-> TRUE]>> \o @]
             ELSE [rest EXCEPT !.attempts = <<p>> \o @,
                               !.streams = <<[dest |-> p, wrote |-> TRUE, closed |-> TRUE]>> \o @,
                               !.delivered = <<[to |-> p, req |-> r]>> \o @]

----------------------------------------------------------------------------
(* Content index *)

KStoreID == "storeID"
KSize == "size"

\* a string is the sequence of its characters
DigitChars == <<"0", "1", "2", "3", "4", "5", "6", "7", "8", "9">>

\* fmt.Sprintf("%d", n), had it printed the last digit only
FormatUint_LastDigit(n) == <<DigitChars[(n % 10) + 1]>>

\* fmt.Sprintf("%d", n): the decimal digits of n, most significant first
RECURSIVE FormatUint(_)
FormatUint(n) ==
    IF n < 10 THEN <<DigitChars[n + 1]>>
    ELSE FormatUint(n \div 10) \o <<DigitChars[(n % 10) + 1]>>

IsDigit(ch) == \E d \in 1..Len(DigitChars) : DigitChars[d] = ch
DigitValue(ch) == (CHOOSE d \in 1..Len(DigitChars) : DigitChars[d] = ch) - 1

RECURSIVE DecimalValue(_)
DecimalValue(str) ==
    IF str = <<>> THEN 0
    ELSE DecimalValue(SubSeq(str, 1, Len(str) - 1)) * 10 + DigitValue(str[Len(str)])

\* strconv.ParseUint(str, 10, 64): the value of a non-empty string of digits
ParseUint(str) ==
    IF str = <<>> \/ \E i \in 1..Len(str) : ~IsDigit(str[i])
    THEN [n |-> 0, err |-> "invalid syntax"]
    ELSE [n |-> DecimalValue(str), err |-> NoErr]

\* Store.PutRecord: overwrite the record of key
PutRecord(idx, key, rec) ==
    [c \in DOMAIN idx \cup {key} |-> IF c = key THEN rec ELSE idx[c]]

\* Store.RemoveRecord: drop the record of key, if any
RemoveRecord(idx, key) == [c \in DOMAIN idx \ {key} |-> idx[c]]

\* Supply.GetStoreID: the store identifier in the record of id, or the error
\* of the step that fails (Store.GetRecord, the label lookup, ParseUint)
GetStoreID(idx, id) ==
    IF id \notin DOMAIN idx THEN [sid |-> 0, err |-> "not found"]
    ELSE IF KStoreID \notin DOMAIN idx[id] THEN [sid |-> 0, err |-> "storeID not found"]
    ELSE LET parsed == ParseUint(idx[id][KStoreID])
         IN  IF parsed.err # NoErr THEN [sid |-> 0, err |-> parsed.err]
             ELSE [sid |-> parsed.n, err |-> NoErr]

\* TransportConfigurer: the store a channel whose voucher is the Request for
\* payload is routed to (GetStore asks the multistore for the store that
\* GetStoreID names); no store when the lookup fails
ConfiguredStore(idx, payload) ==
    LET found == GetStoreID(idx, payload)
    IN  IF found.err # NoErr THEN [routed |-> FALSE, sid |-> 0]
        ELSE [routed |-> TRUE, sid |-> found.sid]

\* the record Supply.Register writes for store sid
RegisterRecord(sid) == [l \in {KStoreID} |-> FormatUint(sid)]

\* Supply.RemoveContent, had it dropped the index entry before anything else
RemoveContentResult_EntryFirst(idx, ms, root, deleteFails) ==
    LET found == GetStoreID(idx, root)
    IN  IF found.err # NoErr
        THEN [err |-> found.err, sid |-> 0, index |-> RemoveRecord(idx, root), stores |-> ms]
        ELSE IF deleteFails
        THEN [err |-> "delete failed", sid |-> found.sid,
              index |-> RemoveRecord(idx, root), stores |-> ms]
        ELSE [err |-> NoErr, sid |-> found.sid,
              index |-> RemoveRecord(idx, root), stores |-> ms \ {found.sid}]

\* Supply.RemoveContent: look the store up, delete it in the multistore ms,
\* remove the record; the first failing step ends the call
RemoveContentResult(idx, ms, root, deleteFails) ==
    LET found == GetStoreID(idx, root)
    IN  IF found.err # NoErr
        THEN [err |-> found.err, sid |-> 0, index |-> idx, stores |-> ms]
        ELSE IF deleteFails
        THEN [err |-> "delete failed", sid |-> found.sid, index |-> idx, stores |-> ms]
        ELSE [err |-> NoErr, sid |-> found.sid,
              index |-> RemoveRecord(idx, root), stores |-> ms \ {found.sid}]

\* Request.Type(): the voucher type of a Request
RequestVoucherType == "DispatchRequestVoucher"

\* the vouchers of the channels the manager configures: a Request, or the
\* voucher of another subsystem
Vouchers ==
    {[Type |-> RequestVoucherType, PayloadCID |-> r.PayloadCID, Size |-> r.Size] :
        r \in Requests}
    \cup {[Type |-> "RetrievalDealProposal", PayloadCID |-> c, Size |-> 0] : c \in CIDs}

\* Supply.GetStore: the store GetStoreID names, opened by the multistore ms
\* (ms.Get opens the store of an identifier, and fails when getFails)
GetStore(idx, ms, id, getFails) ==
    LET found == GetStoreID(idx, id)
    IN  IF found.err # NoErr THEN [err |-> found.err, sid |-> 0, stores |-> ms]
        ELSE IF getFails THEN [err |-> "get failed", sid |-> 0, stores |-> ms]
        ELSE [err |-> NoErr, sid |-> found.sid, stores |-> ms \cup {found.sid}]

\* TransportConfigurer, had it fallen back to store 0 when GetStore fails
TransportConfigurer_FallsBack(idx, ms, voucher, capable, getFails) ==
    IF voucher.Type # RequestVoucherType
    THEN [useStore |-> <<>>, warned |-> FALSE, stores |-> ms]
    ELSE IF ~capable
    THEN [useStore |-> <<>>, warned |-> FALSE, stores |-> ms]
    ELSE LET store == GetStore(idx, ms, voucher.PayloadCID, getFails)
         IN  IF store.err # NoErr
             THEN [useStore |-> <<0>>, warned |-> TRUE, stores |-> ms]
             ELSE [useStore |-> <<store.sid>>, warned |-> FALSE, stores |-> store.stores]

\* the callback TransportConfigurer returns, for a channel with this voucher
\* on a transport that is or is not a StoreConfigurableTransport: the stores
\* UseStore is called with (none or one), whether it warned, and the
\* multistore afterwards
TransportConfigurer(idx, ms, voucher, capable, getFails) ==
    IF voucher.Type # RequestVoucherType
    THEN [useStore |-> <<>>, warned |-> FALSE, stores |-> ms]
    ELSE IF ~capable
    THEN [useStore |-> <<>>, warned |-> FALSE, stores |-> ms]
    ELSE LET store == GetStore(idx, ms, voucher.PayloadCID, getFails)
         IN  IF store.err # NoErr
             THEN [useStore |-> <<>>, warned |-> TRUE, stores |-> ms]
             ELSE [useStore |-> <<store.sid>>, warned |-> FALSE, stores |-> store.stores]

----------------------------------------------------------------------------
(* Storage miners *)

MaxAddressStringLength == 86
MaxIDTextLength == 20

\* address.Undef: the address of the empty string
Undef == [Protocol |-> "Undef", ID |-> 0]

\* address.NewFromString: the address a string denotes.  An ID address is a
\* network prefix, the protocol digit 0 and the identifier in decimal.  The
\* addresses of the key protocols (1, 2, 3) carry an encoded payload that is
\* not decoded here; no miner of the presets is one.
NewFromString(str) ==
    IF Len(str) = 0 THEN [addr |-> Undef, err |-> NoErr]
    ELSE IF Len(str) > MaxAddressStringLength \/ Len(str) < 3
    THEN [addr |-> Undef, err |-> "invalid address length"]
    ELSE IF str[1] \notin {"f", "t"}
    THEN [addr |-> Undef, err |-> "unknown address network"]
    ELSE IF str[2] \notin {"0", "1", "2", "3"}
    THEN [addr |-> Undef, err |-> "unknown address protocol"]
    ELSE IF str[2] # "0"
    THEN [addr |-> Undef, err |-> "key address"]
    ELSE LET raw == SubSeq(str, 3, Len(str))
         IN  IF Len(raw) > MaxIDTextLength
             THEN [addr |-> Undef, err |-> "invalid address length"]
             ELSE LET parsed == ParseUint(raw)
                  IN  IF parsed.err # NoErr
                      THEN [addr |-> Undef, err |-> "invalid address payload"]
                      ELSE [addr |-> [Protocol |-> "ID", ID |-> parsed.n], err |-> NoErr]

\* the first loop of ListMiners, had it appended the miners of Global to the
\* miners gathered before it
RECURSIVE strList_AppendsGlobal(_, _)
strList_AppendsGlobal(regs, acc) ==
    IF regs = <<>> THEN acc
    ELSE IF Head(regs).Name = "Global" THEN acc \o Head(regs).StorageMiners
    ELSE strList_AppendsGlobal(Tail(regs), acc \o Head(regs).StorageMiners)

\* the first loop of ListMiners: strList after the regions regs, acc being
\* its value before them.  The miners of a region named Global replace
\* strList and end the loop.
RECURSIVE strList(_, _)
strList(regs, acc) ==
    IF regs = <<>> THEN acc
    ELSE IF Head(regs).Name = "Global" THEN Head(regs).StorageMiners
    ELSE strList(Tail(regs), acc \o Head(regs).StorageMiners)

\* the second loop of ListMiners: the addresses of strs appended to acc, up
\* to the first string that is not an address
RECURSIVE addrList(_, _)
addrList(strs, acc) ==
    IF strs = <<>> THEN [addrs |-> acc, err |-> NoErr]
    ELSE LET a == NewFromString(Head(strs))
         IN  IF a.err # NoErr THEN [addrs |-> acc, err |-> a.err]
             ELSE addrList(Tail(strs), Append(acc, a.addr))

\* Supply.ListMiners of a node whose regions are regs
ListMiners(regs) == addrList(strList(regs, <<>>), <<>>)

----------------------------------------------------------------------------
(* Transfer events and the responses of Dispatch *)

EventCodes == {"Error", "Complete"}
Statuses == {"Completed", "Ongoing"}

\* an event with its channel state: event.Code, chState.Status(),
\* chState.BaseCID(), chState.Recipient()
EventsOf(recipients) ==
    [code : EventCodes, status : Statuses, cid : CIDs, recipient : recipients]

\* the record the callback of Dispatch sends for ev
PRecord(ev) == [Provider |-> ev.recipient, PayloadCID |-> ev.cid]

\* PRecord{}: the zero record, naming no peer and no payload
EmptyRecord == [Provider |-> NPeers + 1, PayloadCID |-> 0]

\* the callback of Dispatch, had it not compared the base CID
Matches_AnyCid(res, ev) == res.subscribed /\ ev.status = "Completed"

\* the callback of Dispatch, while res is subscribed: does ev make it send?
Matches(res, ev) ==
    /\ res.subscribed
    /\ ev.status = "Completed"
    /\ ev.cid = res.cid

\* the callback thread runs the callbacks of the responses from position
\* `from` on, in subscription order, until one of them sends: it stays in
\* that send (a send on a closed channel panics) or is idle again
RunCallbacks(resps, ev, from) ==
    LET S == {i \in from..Len(resps) : Matches(resps[i], ev)}
    IN  IF S = {} THEN [st |-> "idle"]
        ELSE LET i == CHOOSE x \in S : \A y \in S : x <= y
             IN  IF resps[i].closed THEN [st |-> "panicked"]
                 ELSE [st |-> "sending", ev |-> ev, at |-> i]

\* the subscription of Supply.New, had it not looked at the recipient
Cleanup_AnyRecipient(idx, ev) ==
    IF ev.code = "Error" THEN RemoveRecord(idx, ev.cid) ELSE idx

\* the subscription of Supply.New, called first: drop the index entry of a
\* failed transfer this node is the recipient of
Cleanup(idx, ev) ==
    IF ev.code = "Error" /\ ev.recipient = Self
    THEN RemoveRecord(idx, ev.cid)
    ELSE idx

\* Response.Close, had it closed the channel without unsubscribing
CloseResponse_KeepsSubscription(res) == [res EXCEPT !.closed = TRUE]

\* Response.Close: unsubscribe, then close the record channel
CloseResponse(res) == [res EXCEPT !.subscribed = FALSE, !.closed = TRUE]

----------------------------------------------------------------------------
(* Pull channels of the data-transfer manager *)

\* dt.OpenPullDataChannel(ctx, to, voucher, baseCid, AllSelector()): the
\* manager's channels with a new one, numbered by its transfer identifier
OpenPullDataChannel(chs, to, voucher, baseCid) ==
    chs \cup {[id |-> Cardinality(chs) + 1, peer |-> to, root |-> baseCid,
               voucher |-> voucher, selector |-> "all", status |-> "Ongoing"]}

----------------------------------------------------------------------------
(* Caller threads *)

\* Validator.mu when no caller holds it
Unlocked == 0

\* a caller thread that is inside no call of the node
Idle == [op |-> "idle"]

\* the step that follows pc in a call whose steps are order
StepAfter(order, pc) == order[(CHOOSE i \in 1..Len(order) : order[i] = pc) + 1]

\* Supply.Dispatch, had it sent the requests before authorizing the providers
DispatchOrder_SendsBeforeAuthorizing ==
    <<"subscribe", "select", "send", "authorize", "return">>

\* Supply.Dispatch, had it subscribed to the events after sending the requests
DispatchOrder_SubscribesLast ==
    <<"select", "authorize", "send", "subscribe", "return">>

\* the steps of Supply.Dispatch in program order: SubscribeToEvents,
\* selectProviders, the loop of Authorize, sendAllRequests, return
DispatchOrder == <<"subscribe", "select", "authorize", "send", "return">>

\* Supply.New, had it set the delegate of the Network before registering
\* with the data-transfer manager
NewOrder_DelegatesFirst == <<"delegate", "voucher", "configurer", "subscribe", "return">>

\* the steps of Supply.New after the struct is built: RegisterVoucherType,
\* RegisterTransportConfigurer, net.SetDelegate, dt.SubscribeToEvents, return
NewOrder == <<"voucher", "configurer", "delegate", "subscribe", "return">>

\* handler.HandleRequest, had it allocated the store before reading the request
HandleOrder_AllocatesBeforeRead == <<"allocate", "read", "put", "pull", "close">>

\* handler.HandleRequest, had it opened the pull before writing the index
HandleOrder_PullsBeforePut == <<"read", "allocate", "pull", "put", "close">>

\* the steps of handler.HandleRequest in program order: ReadRequest, ms.Next,
\* PutRecord, OpenPullDataChannel and the deferred stream.Close
HandleOrder == <<"read", "allocate", "put", "pull", "close">>

----------------------------------------------------------------------------
(* The Network and the registrations of Supply.New *)

\* Network.receiver when no receiver is set, and the handler New passes
NilReceiver == "nil"
HandlerReceiver == "handler"

\* NewNetwork(h, regions): no receiver and no stream handler yet
NewNetwork == [receiver |-> NilReceiver, handlers |-> {}]

\* Network.SetDelegate(sr), had it installed no stream handler
SetDelegate_NoHandlers(n, regs, sr) == [n EXCEPT !.receiver = sr]

\* Network.SetDelegate(sr): the receiver, then a stream handler for each of
\* the Network's protocols
SetDelegate(n, regs, sr) ==
    [receiver |-> sr,
     handlers |-> n.handlers \cup Range(protoRegions(RequestProtocol, regs))]

\* the data-transfer manager before New has registered anything with it
NewManager == [voucherTypes |-> {}, configurers |-> {}, subscribed |-> FALSE]

\* the data-transfer manager when New has returned
ManagerOfSupply ==
    [voucherTypes |-> {RequestVoucherType},
     configurers |-> {RequestVoucherType}, subscribed |-> TRUE]

----------------------------------------------------------------------------
(* Initial state: Supply.New *)

Init ==
    /\ regions \in RegionConfigs
    /\ auth = [c \in {} |-> {}]
    /\ authLog = {}
    /\ dispatched = {}
    /\ msNext = 0
    /\ index = [c \in {} |-> <<>>]
    /\ pulls = {}
    /\ stores = {}
    /\ responses = <<>>
    /\ events = <<>>
    /\ thread = [st |-> "idle"]
    /\ mu = Unlocked
    /\ calls = [t \in Callers |-> Idle]
    /\ net = SetDelegate(NewNetwork, regions, HandlerReceiver)
    /\ dt = ManagerOfSupply
    /\ registered = {}
    /\ last = [op |-> "New"]

----------------------------------------------------------------------------
(* Operations *)

Selectors == {"all", "none"}

\* Validator.Authorize called directly
AuthorizeCall(k, p) ==
    /\ auth' = Authorize(auth, k, p)
    /\ authLog' = authLog \cup {<<k, p>>}
    /\ last' = [op |-> "Authorize", cid |-> k, peer |-> p]
    /\ UNCHANGED <<regions, dispatched, msNext, index, pulls, stores, responses,
                   events, thread,
                   mu, calls,
                   net, dt, registered>>

\* the data-transfer manager validates an inbound pull
ValidatePullCall(receiver, voucher, baseCid, selector) ==
    LET res == ValidatePull(auth, receiver, voucher, baseCid, selector)
    IN  /\ auth' = res.auth
        /\ last' = [op |-> "ValidatePull", peer |-> receiver, voucher |-> voucher,
                    cid |-> baseCid, selector |-> selector, err |-> res.err]
        /\ UNCHANGED <<regions, authLog, dispatched, msNext, index, pulls, stores,
                       responses, events, thread,
                       mu, calls,
                   net, dt, registered>>

\* the data-transfer manager validates an inbound push
ValidatePushCall(sender, voucher, baseCid, selector) ==
    LET res == ValidatePush(auth, sender, voucher, baseCid, selector)
    IN  /\ auth' = res.auth
        /\ last' = [op |-> "ValidatePush", peer |-> sender, voucher |-> voucher,
                    cid |-> baseCid, selector |-> selector, err |-> res.err]
        /\ UNCHANGED <<regions, authLog, dispatched, msNext, index, pulls, stores,
                       responses, events, thread,
                       mu, calls,
                   net, dt, registered>>

\* Supply.Dispatch(r) while the host reports conns and behaves as EnvOf(faults)
Dispatch(r, conns, faults) ==
    \E env \in {EnvOf(faults)} :
    \E sel \in {selectProviders(conns, regions, env.ps)} :
    \E sent \in {sendAllRequests(r, sel.peers, env)} :
        /\ dispatched' = dispatched \cup {r.PayloadCID}
        /\ responses' = Append(responses, [cid |-> r.PayloadCID, subscribed |-> TRUE,
                                           closed |-> FALSE, records |-> <<>>])
        /\ IF sel.err # NoErr
           THEN /\ UNCHANGED <<auth, authLog>>
                /\ last' = [op |-> "Dispatch", r |-> r, conns |-> conns, faults |-> faults,
                            err |-> sel.err, Count |-> 0, providers |-> <<>>,
                            authWrites |-> <<>>, attempts |-> <<>>,
                            streams |-> <<>>, delivered |-> <<>>]
           ELSE /\ auth' = AuthorizeAll(auth, r.PayloadCID, sel.peers)
                /\ authLog' = authLog \cup {<<r.PayloadCID, p>> : p \in Range(sel.peers)}
                /\ last' = [op |-> "Dispatch", r |-> r, conns |-> conns, faults |-> faults,
                            err |-> NoErr, Count |-> Len(sel.peers),
                            providers |-> sel.peers,
                            authWrites |-> [i \in 1..Len(sel.peers) |->
                                               <<r.PayloadCID, sel.peers[i]>>],
                            attempts |-> sent.attempts,
                            streams |-> sent.streams, delivered |-> sent.delivered]
        /\ UNCHANGED <<regions, msNext, index, pulls, stores, events, thread,
                       mu, calls,
                   net, dt, registered>>

\* handler.HandleRequest: an inbound request stream from peer `from`; fail
\* names the step that fails, if any (ReadRequest, PutRecord, OpenPullDataChannel)
HandleRequest(from, req, fail) ==
    IF fail = "read"
    THEN /\ last' = [op |-> "HandleRequest", peer |-> from, outcome |-> "decode-failure",
                     closed |-> TRUE]
         /\ UNCHANGED <<regions, auth, authLog, dispatched, msNext, index, pulls,
                        stores, responses, events, thread,
                        mu, calls,
                   net, dt, registered>>
    ELSE /\ msNext < MaxStores
         /\ msNext' = msNext + 1
         /\ stores' = stores \cup {msNext + 1}
         /\ IF fail = "put"
            THEN /\ UNCHANGED <<index, pulls>>
                 /\ last' = [op |-> "HandleRequest", peer |-> from, cid |-> req.PayloadCID,
                             outcome |-> "put-failure", closed |-> TRUE]
            ELSE /\ index' = PutRecord(index, req.PayloadCID,
                                 [l \in {KStoreID, KSize} |->
                                     IF l = KStoreID THEN FormatUint(msNext + 1)
                                     ELSE FormatUint(req.Size)])
                 /\ IF fail = "pull"
                    THEN /\ UNCHANGED pulls
                         /\ last' = [op |-> "HandleRequest", peer |-> from,
                                     cid |-> req.PayloadCID, outcome |-> "pull-failure",
                                     closed |-> TRUE]
                    ELSE /\ pulls' = OpenPullDataChannel(pulls, from, req, req.PayloadCID)
                         /\ last' = [op |-> "HandleRequest", peer |-> from,
                                     cid |-> req.PayloadCID, outcome |-> "pull-opened",
                                     closed |-> TRUE]
         /\ UNCHANGED <<regions, auth, authLog, dispatched, responses, events, thread,
                        mu, calls,
                   net, dt, registered>>

HandleFailures == {"none", "read", "put", "pull"}

\* the data-transfer manager publishes an event while its callback thread is
\* busy or other events wait: the event waits its turn
PublishEvent(ev) ==
    /\ events' = Append(events, ev)
    /\ last' = [op |-> "PublishEvent"]
    /\ UNCHANGED <<regions, auth, authLog, dispatched, msNext, index, pulls, stores,
                   responses, thread,
                   mu, calls,
                   net, dt, registered>>

\* the callback thread takes the next event to the subscriptions, in the
\* order they were made: that of Supply.New, then those of Dispatch
DeliverEvent ==
    /\ thread.st = "idle"
    /\ events # <<>>
    /\ index' = Cleanup(index, Head(events))
    /\ thread' = RunCallbacks(responses, Head(events), 1)
    /\ events' = Tail(events)
    /\ last' = [op |-> "DeliverEvent", ev |-> Head(events)]
    /\ UNCHANGED <<regions, auth, authLog, dispatched, msNext, pulls, stores, responses,
                   mu, calls,
                   net, dt, registered>>

\* the data-transfer manager publishes an event while its callback thread is
\* idle and nothing waits: the event goes to the subscriptions at once
TransferEvent(code, status, baseCid, recipient) ==
    LET ev == [code |-> code, status |-> status, cid |-> baseCid, recipient |-> recipient]
    IN  /\ thread.st = "idle"
        /\ events = <<>>
        /\ index' = Cleanup(index, ev)
        /\ thread' = RunCallbacks(responses, ev, 1)
        /\ last' = [op |-> "TransferEvent", code |-> code, status |-> status,
                    cid |-> baseCid, peer |-> recipient]
        /\ UNCHANGED <<regions, auth, authLog, dispatched, msNext, pulls, stores,
                       responses, events,
                       mu, calls,
                   net, dt, registered>>

NextOutcomes == {"record", "closed", "cancelled"}

\* Response.Next(ctx) on the i-th response returns: with the record a callback
\* is sending, with the zero record of a closed channel, or with the error of
\* a cancelled context.  With none of these it blocks.
ResponseNext(i, how) ==
    /\ i \in 1..Len(responses)
    /\ CASE how = "record" ->
              /\ thread.st = "sending"
              /\ thread.at = i
              /\ responses' = [responses EXCEPT ![i].records = Append(@, PRecord(thread.ev))]
              /\ thread' = RunCallbacks(responses, thread.ev, i + 1)
              /\ last' = [op |-> "Next", res |-> i, rec |-> PRecord(thread.ev),
                          err |-> NoErr, how |-> how]
         [] how = "closed" ->
              /\ responses[i].closed
              /\ last' = [op |-> "Next", res |-> i, rec |-> EmptyRecord,
                          err |-> NoErr, how |-> how]
              /\ UNCHANGED <<responses, thread>>
         [] how = "cancelled" ->
              /\ last' = [op |-> "Next", res |-> i, rec |-> EmptyRecord,
                          err |-> "context canceled", how |-> how]
              /\ UNCHANGED <<responses, thread>>
    /\ UNCHANGED <<regions, auth, authLog, dispatched, msNext, index, pulls, stores, events,
                   mu, calls,
                   net, dt, registered>>

\* Response.Close on the i-th response.  Closing a channel a callback is
\* sending on, or a channel already closed, panics.
ResponseClose(i) ==
    /\ i \in 1..Len(responses)
    /\ responses' = [responses EXCEPT ![i] = CloseResponse(@)]
    /\ thread' = IF responses[i].closed \/ (thread.st = "sending" /\ thread.at = i)
                 THEN [st |-> "panicked"]
                 ELSE thread
    /\ last' = [op |-> "Close", res |-> i]
    /\ UNCHANGED <<regions, auth, authLog, dispatched, msNext, index, pulls, stores, events,
                   mu, calls,
                   net, dt, registered>>

Next ==
    \/ \E k \in CIDs, p \in SmallPeers : AuthorizeCall(k, p)
    \/ \E p \in SmallPeers, v \in Requests, c \in CIDs, s \in Selectors :
          ValidatePullCall(p, v, c, s)
    \/ \E p \in SmallPeers, v \in Requests, c \in CIDs, s \in Selectors :
          ValidatePushCall(p, v, c, s)
    \/ /\ Len(responses) < MaxDispatches
       /\ \E r \in Requests, conns \in SmallConnLists : Dispatch(r, conns, NoFaults)
    \/ \E p \in SmallPeers, r \in Requests, f \in HandleFailures : HandleRequest(p, r, f)
    \/ \E code \in EventCodes, c \in CIDs, p \in SmallPeers \cup {Self} :
          TransferEvent(code, "Ongoing", c, p)

Spec == Init /\ [][Next]_vars

\* One Dispatch call of a freshly built node, over every connection list and
\* every environment of the connected peers
NextDispatch ==
    /\ last.op = "New"
    /\ \E r \in Requests, conns \in ConnLists :
          \E faults \in {fs \in FaultInputs : \A f \in fs : f[1] \in Range(conns)} :
              Dispatch(r, conns, faults)

SpecDispatch == Init /\ [][NextDispatch]_vars

\* A node is built from the region names of its configuration
InitRegions ==
    /\ regions = <<>>
    /\ auth = [c \in {} |-> {}]
    /\ authLog = {}
    /\ dispatched = {}
    /\ msNext = 0
    /\ index = [c \in {} |-> <<>>]
    /\ pulls = {}
    /\ stores = {}
    /\ responses = <<>>
    /\ events = <<>>
    /\ thread = [st |-> "idle"]
    /\ mu = Unlocked
    /\ calls = [t \in Callers |-> Idle]
    /\ net = NewNetwork
    /\ dt = NewManager
    /\ registered = {}
    /\ \E names \in NameLists : last = [op |-> "Config", names |-> names]

\* Supply.New(..., ParseRegions(names)): the regions of the node and the
\* protocol identifiers of its Network
NewSupply ==
    /\ last.op = "Config"
    /\ regions' = ParseRegions(last.names)
    /\ last' = [op |-> "NewSupply", names |-> last.names,
                protocols |-> protoRegions(RequestProtocol, ParseRegions(last.names))]
    /\ UNCHANGED <<auth, authLog, dispatched, msNext, index, pulls, stores, responses,
                   events, thread,
                   mu, calls, registered>>
    /\ net' = SetDelegate(NewNetwork, ParseRegions(last.names), HandlerReceiver)
    /\ dt' = ManagerOfSupply

\* Supply.ListMiners(ctx) on the node just built
ListMinersCall ==
    /\ last.op = "NewSupply"
    /\ \E res \in {ListMiners(regions)} :
           last' = [op |-> "ListMiners", names |-> last.names,
                    addrs |-> res.addrs, err |-> res.err]
    /\ UNCHANGED <<regions, auth, authLog, dispatched, msNext, index, pulls, stores,
                   responses, events, thread,
                   mu, calls,
                   net, dt, registered>>

NextRegions ==
    \/ NewSupply
    \/ ListMinersCall

SpecRegions == InitRegions /\ [][NextRegions]_vars

\* the peers whose transfers report events: the local peer and a remote one
ResponsePeers == {Self, 1}

\* the store identifiers a caller registers: those the multistore can hand
\* out, one it never hands out and one of two digits
StoreIDs == (0..MaxStores) \cup {10}

\* Supply.Register(key, sid); putFails: Store.PutRecord fails
Register(key, sid, putFails) ==
    /\ index' = IF putFails THEN index ELSE PutRecord(index, key, RegisterRecord(sid))
    /\ last' = [op |-> "Register", cid |-> key, sid |-> sid,
                err |-> IF putFails THEN "put failed" ELSE NoErr]
    /\ UNCHANGED <<regions, auth, authLog, dispatched, msNext, pulls, stores, responses,
                   events, thread,
                   mu, calls,
                   net, dt>>
    /\ registered' = IF putFails THEN registered ELSE registered \cup {key}

\* Supply.RemoveContent(root); deleteFails: the multistore's Delete fails
RemoveContent(root, deleteFails) ==
    \E res \in {RemoveContentResult(index, stores, root, deleteFails)} :
        /\ index' = res.index
        /\ stores' = res.stores
        /\ last' = [op |-> "RemoveContent", cid |-> root, deleteFails |-> deleteFails,
                    sid |-> res.sid, err |-> res.err]
        /\ UNCHANGED <<regions, auth, authLog, dispatched, msNext, pulls, responses,
                       events, thread,
                       mu, calls,
                   net, dt>>
        /\ registered' = IF root \in DOMAIN res.index THEN registered
                          ELSE registered \ {root}

\* the texts a storeID label may hold and the records another user of the
\* Store may write: no label, a size only, any text as the store identifier
LabelTexts == {<<>>, <<"7">>, <<"0", "1">>, <<"x">>, <<"1", "x">>}

ContentRecords ==
    {<<>>, [l \in {KSize} |-> <<"1">>]} \cup {[l \in {KStoreID} |-> t] : t \in LabelTexts}

\* Store.PutRecord called by another user of the Store
PutRecordCall(key, rec) ==
    /\ index' = PutRecord(index, key, rec)
    /\ last' = [op |-> "PutRecord", cid |-> key]
    /\ UNCHANGED <<regions, auth, authLog, dispatched, msNext, pulls, stores, responses,
                   events, thread,
                   mu, calls,
                   net, dt, registered>>

\* The content index: callers register and remove content, inbound requests
\* arrive from a remote peer, transfers to the local peer and to that peer
\* report events
NextIndex ==
    \/ \E c \in CIDs, sid \in StoreIDs, f \in BOOLEAN : Register(c, sid, f)
    \/ \E r \in Requests, f \in HandleFailures : HandleRequest(1, r, f)
    \/ \E code \in EventCodes, c \in CIDs, p \in ResponsePeers :
          TransferEvent(code, "Ongoing", c, p)
    \/ \E c \in CIDs, f \in BOOLEAN : RemoveContent(c, f)

SpecIndex == Init /\ [][NextIndex]_vars

\* The Store under its other users: records of any shape are written, content
\* is registered and removed
NextStore ==
    \/ \E c \in CIDs, sid \in StoreIDs, f \in BOOLEAN : Register(c, sid, f)
    \/ \E c \in CIDs, rec \in ContentRecords : PutRecordCall(c, rec)
    \/ \E c \in CIDs, f \in BOOLEAN : RemoveContent(c, f)

SpecStore == Init /\ [][NextStore]_vars

\* The responses of Dispatch: a caller dispatches, the manager publishes
\* events about transfers to the local peer and to one remote peer, its
\* callback thread delivers them, callers read and close their responses,
\* inbound requests arrive from the remote peer
NextResponse ==
    /\ thread.st # "panicked"
    /\ \/ /\ Len(responses) < MaxResponses
          /\ \E r \in Requests, k \in 0..1 : Dispatch(r, Prefix(k), NoFaults)
       \/ /\ Len(events) < MaxEvents
          /\ \E ev \in EventsOf(ResponsePeers) : PublishEvent(ev)
       \/ DeliverEvent
       \/ \E i \in 1..Len(responses), how \in NextOutcomes :
             /\ how = "record" => Len(responses[i].records) < MaxRecords
             /\ ResponseNext(i, how)
       \/ \E i \in 1..Len(responses) : ResponseClose(i)
       \/ \E r \in Requests : HandleRequest(1, r, "none")

SpecResponse == Init /\ [][NextResponse]_vars

\* the same, the callback thread taking every step it can take
SpecResponseLive == SpecResponse /\ WF_vars(DeliverEvent)

\* the manager starts a channel and calls the transport configurer;
\* useFails: UseStore returns an error, which is only reported
ConfigureChannel(voucher, capable, getFails, useFails) ==
    \E res \in {TransportConfigurer(index, stores, voucher, capable, getFails)} :
        /\ stores' = res.stores
        /\ last' = [op |-> "Configure", voucher |-> voucher, capable |-> capable,
                    getFails |-> getFails, useStore |-> res.useStore,
                    warned |-> res.warned \/ (res.useStore # <<>> /\ useFails)]
        /\ UNCHANGED <<regions, auth, authLog, dispatched, msNext, index, pulls,
                       responses, events, thread, mu, calls,
                   net, dt, registered>>

\* Channels start while content is indexed by inbound requests or written by
\* other users of the Store, and a peer is authorized
NextConfigure ==
    \/ \E c \in CIDs, rec \in ContentRecords : PutRecordCall(c, rec)
    \/ \E r \in Requests : HandleRequest(1, r, "none")
    \/ AuthorizeCall(1, 1)
    \/ \E v \in Vouchers, capable \in BOOLEAN, g \in BOOLEAN, u \in BOOLEAN :
          ConfigureChannel(v, capable, g, u)

SpecConfigure == Init /\ [][NextConfigure]_vars

----------------------------------------------------------------------------
(* Supply.Dispatch step by step, on the thread of its caller *)

\* the caller t enters Dispatch(r): the Response and its record channel are made
DispatchCall(t, r) ==
    /\ calls[t] = Idle
    /\ responses' = Append(responses, [cid |-> r.PayloadCID, subscribed |-> FALSE,
                                       closed |-> FALSE, records |-> <<>>])
    /\ dispatched' = dispatched \cup {r.PayloadCID}
    /\ calls' = [calls EXCEPT ![t] =
                    [op |-> "Dispatch", pc |-> Head(DispatchOrder), r |-> r,
                     res |-> Len(responses) + 1, providers |-> <<>>, err |-> NoErr,
                     authWrites |-> <<>>, attempts |-> <<>>, delivered |-> <<>>]]
    /\ UNCHANGED <<regions, auth, authLog, msNext, index, pulls, stores, events,
                   thread, mu, last,
                   net, dt, registered>>

\* res.unsub = s.dt.SubscribeToEvents(...)
DispatchSubscribe(t) ==
    /\ calls[t].op = "Dispatch"
    /\ calls[t].pc = "subscribe"
    /\ responses' = [responses EXCEPT ![calls[t].res].subscribed = TRUE]
    /\ calls' = [calls EXCEPT ![t].pc = StepAfter(DispatchOrder, "subscribe")]
    /\ UNCHANGED <<regions, auth, authLog, dispatched, msNext, index, pulls, stores,
                   events, thread, mu, last,
                   net, dt, registered>>

\* providers, err := s.selectProviders(), the host reporting conns and
\* behaving as EnvOf(faults); an error returns at once
DispatchSelect(t, conns, faults) ==
    /\ calls[t].op = "Dispatch"
    /\ calls[t].pc = "select"
    /\ \E sel \in {selectProviders(conns, regions, EnvOf(faults).ps)} :
           calls' = [calls EXCEPT ![t] =
                        IF sel.err # NoErr
                        THEN [@ EXCEPT !.err = sel.err, !.pc = "return"]
                        ELSE [@ EXCEPT !.providers = sel.peers,
                                       !.pc = StepAfter(DispatchOrder, "select")]]
    /\ UNCHANGED <<regions, auth, authLog, dispatched, msNext, index, pulls, stores,
                   responses, events, thread, mu, last,
                   net, dt, registered>>

\* one turn of the loop over providers: s.validation.Authorize(r.PayloadCID, p),
\* which waits for the mutex and holds it from Lock to Unlock; after the last
\* provider the loop ends
DispatchAuthorize(t) ==
    /\ calls[t].op = "Dispatch"
    /\ calls[t].pc = "authorize"
    /\ IF Len(calls[t].authWrites) < Len(calls[t].providers)
       THEN \E p \in {calls[t].providers[Len(calls[t].authWrites) + 1]} :
               /\ mu = Unlocked
               /\ auth' = Authorize(auth, calls[t].r.PayloadCID, p)
               /\ authLog' = authLog \cup {<<calls[t].r.PayloadCID, p>>}
               /\ calls' = [calls EXCEPT ![t].authWrites = Append(@, p)]
       ELSE /\ calls' = [calls EXCEPT ![t].pc = StepAfter(DispatchOrder, "authorize")]
            /\ UNCHANGED <<auth, authLog>>
    /\ UNCHANGED <<regions, dispatched, msNext, index, pulls, stores, responses,
                   events, thread, mu, last,
                   net, dt, registered>>

\* what can go wrong with the stream to one peer
StreamFaults == {"none", "open", "write"}

\* one turn of the loop of sendAllRequests: open a stream to the next
\* provider, write the request, close; after the last provider the loop ends
DispatchSend(t, fault) ==
    /\ calls[t].op = "Dispatch"
    /\ calls[t].pc = "send"
    /\ IF Len(calls[t].attempts) < Len(calls[t].providers)
       THEN \E p \in {calls[t].providers[Len(calls[t].attempts) + 1]} :
            \E sent \in {sendAllRequests(calls[t].r, <<p>>,
                             EnvOf(IF fault = "none" THEN {} ELSE {<<p, fault>>}))} :
               calls' = [calls EXCEPT ![t].attempts = @ \o sent.attempts,
                                      ![t].delivered = @ \o sent.delivered]
       ELSE calls' = [calls EXCEPT ![t].pc = StepAfter(DispatchOrder, "send")]
    /\ UNCHANGED <<regions, auth, authLog, dispatched, msNext, index, pulls, stores,
                   responses, events, thread, mu, last,
                   net, dt, registered>>

\* Dispatch returns its Response to the caller, with the error of the
\* selection or with Count = len(providers)
DispatchReturn(t) ==
    /\ calls[t].op = "Dispatch"
    /\ calls[t].pc = "return"
    /\ last' = [op |-> "DispatchReturn", r |-> calls[t].r, res |-> calls[t].res,
                err |-> calls[t].err, Count |-> Len(calls[t].providers),
                delivered |-> calls[t].delivered]
    /\ calls' = [calls EXCEPT ![t] = Idle]
    /\ UNCHANGED <<regions, auth, authLog, dispatched, msNext, index, pulls, stores,
                   responses, events, thread, mu,
                   net, dt, registered>>

\* the caller holds the i-th response: the Dispatch that made it has returned
Returned(i) == \A t \in Callers : calls[t].op = "Dispatch" => calls[t].res # i

\* A caller dispatches step by step while the manager publishes and delivers
\* transfer events and the caller reads and closes the response it was given
NextDispatchSteps ==
    /\ thread.st # "panicked"
    /\ \/ /\ Len(responses) < MaxResponses
          /\ \E t \in Callers, r \in Requests : DispatchCall(t, r)
       \/ \E t \in Callers : DispatchSubscribe(t)
       \/ \E t \in Callers, conns \in SmallConnLists, faults \in SmallFaultInputs :
             DispatchSelect(t, conns, faults)
       \/ \E t \in Callers : DispatchAuthorize(t)
       \/ \E t \in Callers, f \in StreamFaults : DispatchSend(t, f)
       \/ \E t \in Callers : DispatchReturn(t)
       \/ /\ Len(events) < MaxEvents
          /\ \E ev \in EventsOf(ResponsePeers) : PublishEvent(ev)
       \/ DeliverEvent
       \/ \E i \in 1..Len(responses), how \in NextOutcomes :
             /\ Returned(i)
             /\ how = "record" => Len(responses[i].records) < MaxRecords
             /\ ResponseNext(i, how)
       \/ \E i \in 1..Len(responses) : Returned(i) /\ ResponseClose(i)

SpecDispatchSteps == Init /\ [][NextDispatchSteps]_vars

----------------------------------------------------------------------------
(* The Validator step by step, called from several threads *)

\* v.mu.Lock(), had it let a caller in while another holds the mutex
CanLock_NoExclusion(m, t) == TRUE

\* v.mu.Lock() returns for caller t only when no caller holds the mutex
CanLock(m, t) == m = Unlocked

\* the caller t enters Authorize(k, p)
AuthorizeEnter(t, k, p) ==
    /\ calls[t] = Idle
    /\ calls' = [calls EXCEPT ![t] = [op |-> "Authorize", pc |-> "lock", cid |-> k,
                                      peer |-> p, ok |-> FALSE]]
    /\ UNCHANGED <<regions, auth, authLog, dispatched, msNext, index, pulls, stores,
                   responses, events, thread, mu, last,
                   net, dt, registered>>

\* v.mu.Lock()
AuthorizeLock(t) ==
    /\ calls[t].op = "Authorize"
    /\ calls[t].pc = "lock"
    /\ CanLock(mu, t)
    /\ mu' = t
    /\ calls' = [calls EXCEPT ![t].pc = "lookup"]
    /\ UNCHANGED <<regions, auth, authLog, dispatched, msNext, index, pulls, stores,
                   responses, events, thread, last,
                   net, dt, registered>>

\* set, ok := v.auth[k]
AuthorizeLookup(t) ==
    /\ calls[t].op = "Authorize"
    /\ calls[t].pc = "lookup"
    /\ calls' = [calls EXCEPT ![t].ok = calls[t].cid \in DOMAIN auth,
                              ![t].pc = "store"]
    /\ UNCHANGED <<regions, auth, authLog, dispatched, msNext, index, pulls, stores,
                   responses, events, thread, mu, last,
                   net, dt, registered>>

\* with ok: set.Add(p); without: a new set holding p is stored as v.auth[k]
AuthorizeStore(t) ==
    /\ calls[t].op = "Authorize"
    /\ calls[t].pc = "store"
    /\ auth' = IF calls[t].ok
               THEN [auth EXCEPT ![calls[t].cid] = @ \cup {calls[t].peer}]
               ELSE [c \in DOMAIN auth \cup {calls[t].cid} |->
                        IF c = calls[t].cid THEN {calls[t].peer} ELSE auth[c]]
    /\ calls' = [calls EXCEPT ![t].pc = "unlock"]
    /\ UNCHANGED <<regions, authLog, dispatched, msNext, index, pulls, stores,
                   responses, events, thread, mu, last,
                   net, dt, registered>>

\* the deferred v.mu.Unlock(), and Authorize returns
AuthorizeUnlock(t) ==
    /\ calls[t].op = "Authorize"
    /\ calls[t].pc = "unlock"
    /\ mu' = Unlocked
    /\ authLog' = authLog \cup {<<calls[t].cid, calls[t].peer>>}
    /\ last' = [op |-> "Authorize", cid |-> calls[t].cid, peer |-> calls[t].peer]
    /\ calls' = [calls EXCEPT ![t] = Idle]
    /\ UNCHANGED <<regions, auth, dispatched, msNext, index, pulls, stores,
                   responses, events, thread,
                   net, dt, registered>>

\* a transport thread t enters ValidatePull(receiver, voucher, baseCid, selector)
ValidatePullEnter(t, receiver, voucher, baseCid, selector) ==
    /\ calls[t] = Idle
    /\ calls' = [calls EXCEPT ![t] =
                    [op |-> "ValidatePull", pc |-> "lock", peer |-> receiver,
                     voucher |-> voucher, cid |-> baseCid, selector |-> selector,
                     err |-> NoErr]]
    /\ UNCHANGED <<regions, auth, authLog, dispatched, msNext, index, pulls, stores,
                   responses, events, thread, mu, last,
                   net, dt, registered>>

\* v.mu.Lock()
ValidatePullLock(t) ==
    /\ calls[t].op = "ValidatePull"
    /\ calls[t].pc = "lock"
    /\ CanLock(mu, t)
    /\ mu' = t
    /\ calls' = [calls EXCEPT ![t].pc = "check"]
    /\ UNCHANGED <<regions, auth, authLog, dispatched, msNext, index, pulls, stores,
                   responses, events, thread, last,
                   net, dt, registered>>

\* set, ok := v.auth[baseCid] and set.Contains(receiver): the result is decided
ValidatePullCheck(t) ==
    /\ calls[t].op = "ValidatePull"
    /\ calls[t].pc = "check"
    /\ \E res \in {ValidatePull(auth, calls[t].peer, calls[t].voucher, calls[t].cid,
                                 calls[t].selector)} :
           /\ auth' = res.auth
           /\ calls' = [calls EXCEPT ![t].err = res.err, ![t].pc = "unlock"]
    /\ UNCHANGED <<regions, authLog, dispatched, msNext, index, pulls, stores,
                   responses, events, thread, mu, last,
                   net, dt, registered>>

\* the deferred v.mu.Unlock(), and ValidatePull returns
ValidatePullUnlock(t) ==
    /\ calls[t].op = "ValidatePull"
    /\ calls[t].pc = "unlock"
    /\ mu' = Unlocked
    /\ last' = [op |-> "ValidatePull", peer |-> calls[t].peer, voucher |-> calls[t].voucher,
                cid |-> calls[t].cid, selector |-> calls[t].selector, err |-> calls[t].err]
    /\ calls' = [calls EXCEPT ![t] = Idle]
    /\ UNCHANGED <<regions, auth, authLog, dispatched, msNext, index, pulls, stores,
                   responses, events, thread,
                   net, dt, registered>>

\* Threads call Authorize and ValidatePull at the same time
NextValidator ==
    \E t \in Callers :
        \/ \E k \in CIDs, p \in SmallPeers : AuthorizeEnter(t, k, p)
        \/ AuthorizeLock(t)
        \/ AuthorizeLookup(t)
        \/ AuthorizeStore(t)
        \/ AuthorizeUnlock(t)
        \/ \E p \in SmallPeers, v \in Requests :
              ValidatePullEnter(t, p, v, v.PayloadCID, "all")
        \/ ValidatePullLock(t)
        \/ ValidatePullCheck(t)
        \/ ValidatePullUnlock(t)

SpecValidator == Init /\ [][NextValidator]_vars

----------------------------------------------------------------------------
(* handler.HandleRequest step by step, on the thread of the stream handler *)

\* a request stream from peer `from` arrives on thread t
HandleEnter(t, from) ==
    /\ calls[t] = Idle
    /\ calls' = [calls EXCEPT ![t] =
                    [op |-> "HandleRequest", pc |-> Head(HandleOrder), peer |-> from,
                     req |-> [PayloadCID |-> 0, Size |-> 0], storeID |-> 0,
                     outcome |-> "running"]]
    /\ UNCHANGED <<regions, auth, authLog, dispatched, msNext, index, pulls, stores,
                   responses, events, thread, mu, last,
                   net, dt, registered>>

\* req, err := stream.ReadRequest(); an error returns
HandleRead(t, req, fails) ==
    /\ calls[t].op = "HandleRequest"
    /\ calls[t].pc = "read"
    /\ calls' = [calls EXCEPT ![t] =
                    IF fails
                    THEN [@ EXCEPT !.outcome = "decode-failure", !.pc = "close"]
                    ELSE [@ EXCEPT !.req = req, !.pc = StepAfter(HandleOrder, "read")]]
    /\ UNCHANGED <<regions, auth, authLog, dispatched, msNext, index, pulls, stores,
                   responses, events, thread, mu, last,
                   net, dt, registered>>

\* storeID := h.ms.Next()
HandleAllocate(t) ==
    /\ calls[t].op = "HandleRequest"
    /\ calls[t].pc = "allocate"
    /\ msNext < MaxInbound
    /\ msNext' = msNext + 1
    /\ stores' = stores \cup {msNext + 1}
    /\ calls' = [calls EXCEPT ![t].storeID = msNext + 1,
                              ![t].pc = StepAfter(HandleOrder, "allocate")]
    /\ UNCHANGED <<regions, auth, authLog, dispatched, index, pulls, responses,
                   events, thread, mu, last,
                   net, dt, registered>>

\* err = h.s.PutRecord(req.PayloadCID, {storeID, size}); an error returns
HandlePut(t, fails) ==
    /\ calls[t].op = "HandleRequest"
    /\ calls[t].pc = "put"
    /\ IF fails
       THEN /\ calls' = [calls EXCEPT ![t].outcome = "put-failure", ![t].pc = "close"]
            /\ UNCHANGED index
       ELSE /\ index' = PutRecord(index, calls[t].req.PayloadCID,
                            [l \in {KStoreID, KSize} |->
                                IF l = KStoreID THEN FormatUint(calls[t].storeID)
                                ELSE FormatUint(calls[t].req.Size)])
            /\ calls' = [calls EXCEPT ![t].pc = StepAfter(HandleOrder, "put")]
    /\ UNCHANGED <<regions, auth, authLog, dispatched, msNext, pulls, stores,
                   responses, events, thread, mu, last,
                   net, dt, registered>>

\* _, err = h.dt.OpenPullDataChannel(ctx, stream.OtherPeer(), &req,
\* req.PayloadCID, AllSelector()); an error returns
HandlePull(t, fails) ==
    /\ calls[t].op = "HandleRequest"
    /\ calls[t].pc = "pull"
    /\ IF fails
       THEN /\ calls' = [calls EXCEPT ![t].outcome = "pull-failure", ![t].pc = "close"]
            /\ UNCHANGED pulls
       ELSE /\ pulls' = OpenPullDataChannel(pulls, calls[t].peer, calls[t].req,
                                            calls[t].req.PayloadCID)
            /\ calls' = [calls EXCEPT ![t].outcome = "pull-opened",
                                      ![t].pc = StepAfter(HandleOrder, "pull")]
    /\ UNCHANGED <<regions, auth, authLog, dispatched, msNext, index, stores,
                   responses, events, thread, mu, last,
                   net, dt, registered>>

\* the deferred stream.Close(), and HandleRequest returns
HandleClose(t) ==
    /\ calls[t].op = "HandleRequest"
    /\ calls[t].pc = "close"
    /\ last' = [op |-> "HandleRequest", peer |-> calls[t].peer,
                cid |-> calls[t].req.PayloadCID, outcome |-> calls[t].outcome,
                closed |-> TRUE]
    /\ calls' = [calls EXCEPT ![t] = Idle]
    /\ UNCHANGED <<regions, auth, authLog, dispatched, msNext, index, pulls, stores,
                   responses, events, thread, mu,
                   net, dt, registered>>

\* how the transfer of a pull channel ends: the event code the manager
\* reports and the status the channel has from then on
ChannelEndings == {<<"Complete", "Completed">>, <<"Error", "Failed">>}

\* the manager reports the end of ch, a running pull channel of HandleRequest
\* (its recipient is this node), to the subscriptions
ChannelEvent(ch, ending) ==
    /\ ch \in pulls
    /\ ch.status = "Ongoing"
    /\ thread.st = "idle"
    /\ events = <<>>
    /\ \E ev \in {[code |-> ending[1], status |-> ending[2], cid |-> ch.root,
                    recipient |-> Self]} :
           /\ index' = Cleanup(index, ev)
           /\ thread' = RunCallbacks(responses, ev, 1)
    /\ pulls' = (pulls \ {ch}) \cup {[ch EXCEPT !.status = ending[2]]}
    /\ last' = [op |-> "ChannelEvent", id |-> ch.id, code |-> ending[1],
                status |-> ending[2], cid |-> ch.root, peer |-> Self]
    /\ UNCHANGED <<regions, auth, authLog, dispatched, msNext, stores, responses,
                   events, mu, calls,
                   net, dt, registered>>

\* Inbound requests arrive on several threads and their transfers end
NextInbound ==
    \/ \E t \in Callers, p \in SmallPeers : HandleEnter(t, p)
    \/ \E t \in Callers, r \in Requests, f \in BOOLEAN : HandleRead(t, r, f)
    \/ \E t \in Callers : HandleAllocate(t)
    \/ \E t \in Callers, f \in BOOLEAN : HandlePut(t, f)
    \/ \E t \in Callers, f \in BOOLEAN : HandlePull(t, f)
    \/ \E t \in Callers : HandleClose(t)
    \/ \E ch \in pulls, e \in ChannelEndings : ChannelEvent(ch, e)

SpecInbound == Init /\ [][NextInbound]_vars

\* a remote peer asks to pull baseCid with a Request voucher: the manager
\* asks the Validator registered for the voucher type and, when it allows
\* the pull, starts the channel and calls the transport configurer
PullRequest(receiver, voucher, baseCid, selector, capable, getFails) ==
    /\ voucher.Type \in dt.voucherTypes
    /\ \E res \in {ValidatePull(auth, receiver, voucher, baseCid, selector)} :
          IF res.err # NoErr
          THEN /\ last' = [op |-> "PullRequest", peer |-> receiver, voucher |-> voucher,
                           baseCid |-> baseCid, err |-> res.err, useStore |-> <<>>]
               /\ UNCHANGED stores
          ELSE \E cfg \in {IF voucher.Type \in dt.configurers
                            THEN TransportConfigurer(index, stores, voucher, capable, getFails)
                            ELSE [useStore |-> <<>>, warned |-> FALSE, stores |-> stores]} :
                  /\ stores' = cfg.stores
                  /\ last' = [op |-> "PullRequest", peer |-> receiver,
                              voucher |-> voucher, baseCid |-> baseCid, err |-> NoErr,
                              useStore |-> cfg.useStore]
    /\ UNCHANGED <<regions, auth, authLog, dispatched, msNext, index, pulls,
                   responses, events, thread, mu, calls,
                   net, dt, registered>>

\* the vouchers of type Request
RequestVouchers == {v \in Vouchers : v.Type = RequestVoucherType}

\* Content is registered in stores 0 and 1, peers are authorized, and remote
\* peers ask to pull
NextPull ==
    \/ \E c \in CIDs, sid \in 0..MaxStores : Register(c, sid, FALSE)
    \/ \E k \in CIDs, p \in SmallPeers : AuthorizeCall(k, p)
    \/ \E p \in SmallPeers, v \in RequestVouchers, c \in CIDs, g \in BOOLEAN :
          PullRequest(p, v, c, "all", TRUE, g)

SpecPull == Init /\ [][NextPull]_vars

----------------------------------------------------------------------------
(* Inbound streams of the Network, and Supply.New step by step *)

\* a remote peer opens a stream to the host on proto: the host hands it to
\* the stream handler of that protocol on thread t, or refuses it when the
\* protocol has no handler
StreamOpen(t, p, proto) ==
    /\ calls[t] = Idle
    /\ IF proto \in net.handlers
       THEN /\ calls' = [calls EXCEPT ![t] =
                            [op |-> "handleStream", remote |-> p, proto |-> proto]]
            /\ UNCHANGED last
       ELSE /\ last' = [op |-> "StreamOpen", peer |-> p, proto |-> proto,
                        outcome |-> "refused"]
            /\ UNCHANGED calls
    /\ UNCHANGED <<regions, auth, authLog, dispatched, msNext, index, pulls, stores,
                   responses, events, thread, mu,
                   net, dt, registered>>

\* Network.handleStream(s): without a receiver the stream is reset; with one,
\* the receiver's HandleRequest is called with the stream and its remote peer
handleStream(t) ==
    /\ calls[t].op = "handleStream"
    /\ IF net.receiver = NilReceiver
       THEN /\ calls' = [calls EXCEPT ![t] = Idle]
            /\ last' = [op |-> "handleStream", peer |-> calls[t].remote,
                        proto |-> calls[t].proto, outcome |-> "reset"]
       ELSE /\ calls' = [calls EXCEPT ![t] =
                            [op |-> "HandleRequest", pc |-> Head(HandleOrder),
                             peer |-> calls[t].remote,
                             req |-> [PayloadCID |-> 0, Size |-> 0], storeID |-> 0,
                             outcome |-> "running"]]
            /\ UNCHANGED last
    /\ UNCHANGED <<regions, auth, authLog, dispatched, msNext, index, pulls, stores,
                   responses, events, thread, mu,
                   net, dt, registered>>

\* a user of the Network calls SetDelegate(sr)
SetDelegateCall(sr) ==
    /\ net' = SetDelegate(net, regions, sr)
    /\ last' = [op |-> "SetDelegate", receiver |-> sr]
    /\ UNCHANGED <<regions, auth, authLog, dispatched, msNext, index, pulls, stores,
                   responses, events, thread, mu, calls,
                   dt, registered>>

\* s.dt.RegisterVoucherType(&Request{}, v)
NewRegisterVoucherType(t) ==
    /\ calls[t].op = "New"
    /\ calls[t].pc = "voucher"
    /\ dt' = [dt EXCEPT !.voucherTypes = @ \cup {RequestVoucherType}]
    /\ calls' = [calls EXCEPT ![t].pc = StepAfter(NewOrder, "voucher")]
    /\ UNCHANGED <<regions, auth, authLog, dispatched, msNext, index, pulls, stores,
                   responses, events, thread, mu, last,
                   net, registered>>

\* s.dt.RegisterTransportConfigurer(&Request{}, TransportConfigurer(s))
NewRegisterTransportConfigurer(t) ==
    /\ calls[t].op = "New"
    /\ calls[t].pc = "configurer"
    /\ dt' = [dt EXCEPT !.configurers = @ \cup {RequestVoucherType}]
    /\ calls' = [calls EXCEPT ![t].pc = StepAfter(NewOrder, "configurer")]
    /\ UNCHANGED <<regions, auth, authLog, dispatched, msNext, index, pulls, stores,
                   responses, events, thread, mu, last,
                   net, registered>>

\* s.net.SetDelegate(&handler{ms, dt, store})
NewSetDelegate(t) ==
    /\ calls[t].op = "New"
    /\ calls[t].pc = "delegate"
    /\ net' = SetDelegate(net, regions, HandlerReceiver)
    /\ calls' = [calls EXCEPT ![t].pc = StepAfter(NewOrder, "delegate")]
    /\ UNCHANGED <<regions, auth, authLog, dispatched, msNext, index, pulls, stores,
                   responses, events, thread, mu, last,
                   dt, registered>>

\* dt.SubscribeToEvents(cleanup)
NewSubscribe(t) ==
    /\ calls[t].op = "New"
    /\ calls[t].pc = "subscribe"
    /\ dt' = [dt EXCEPT !.subscribed = TRUE]
    /\ calls' = [calls EXCEPT ![t].pc = StepAfter(NewOrder, "subscribe")]
    /\ UNCHANGED <<regions, auth, authLog, dispatched, msNext, index, pulls, stores,
                   responses, events, thread, mu, last,
                   net, registered>>

\* return s
NewReturn(t) ==
    /\ calls[t].op = "New"
    /\ calls[t].pc = "return"
    /\ calls' = [calls EXCEPT ![t] = Idle]
    /\ last' = [op |-> "New"]
    /\ UNCHANGED <<regions, auth, authLog, dispatched, msNext, index, pulls, stores,
                   responses, events, thread, mu,
                   net, dt, registered>>

\* the manager reports the end of ch, a running pull channel, to the
\* subscriptions it has by then
ManagerEvent(ch, ending) ==
    /\ ch \in pulls
    /\ ch.status = "Ongoing"
    /\ thread.st = "idle"
    /\ events = <<>>
    /\ \E ev \in {[code |-> ending[1], status |-> ending[2], cid |-> ch.root,
                    recipient |-> Self]} :
           /\ index' = IF dt.subscribed THEN Cleanup(index, ev) ELSE index
           /\ thread' = RunCallbacks(responses, ev, 1)
    /\ pulls' = (pulls \ {ch}) \cup {[ch EXCEPT !.status = ending[2]]}
    /\ last' = [op |-> "ChannelEvent", id |-> ch.id, code |-> ending[1],
                status |-> ending[2], cid |-> ch.root, peer |-> Self]
    /\ UNCHANGED <<regions, auth, authLog, dispatched, msNext, stores, responses,
                   events, mu, calls,
                   net, dt, registered>>

\* the handler of a stream runs, statement by statement
HandleSteps(t) ==
    \/ handleStream(t)
    \/ \E r \in Requests, f \in BOOLEAN : HandleRead(t, r, f)
    \/ HandleAllocate(t)
    \/ \E f \in BOOLEAN : HandlePut(t, f)
    \/ \E f \in BOOLEAN : HandlePull(t, f)
    \/ HandleClose(t)

\* the host and the data-transfer manager are running when New is called on
\* thread 1 with the regions of the configuration
InitNew ==
    /\ regions \in RegionConfigs
    /\ auth = [c \in {} |-> {}]
    /\ authLog = {}
    /\ dispatched = {}
    /\ msNext = 0
    /\ index = [c \in {} |-> <<>>]
    /\ pulls = {}
    /\ stores = {}
    /\ responses = <<>>
    /\ events = <<>>
    /\ thread = [st |-> "idle"]
    /\ mu = Unlocked
    /\ calls = [t \in Callers |->
                   IF t = 1 THEN [op |-> "New", pc |-> Head(NewOrder)] ELSE Idle]
    /\ net = NewNetwork
    /\ dt = NewManager
    /\ registered = {}
    /\ last = [op |-> "NewNetwork"]

\* New has not returned
Constructing == \E t \in Callers : calls[t].op = "New"

\* While New runs, remote peers open streams and ask to pull; the streams are
\* handled and the transfers end, during the construction or after it
NextNew ==
    \/ \E t \in Callers : NewRegisterVoucherType(t)
    \/ \E t \in Callers : NewRegisterTransportConfigurer(t)
    \/ \E t \in Callers : NewSetDelegate(t)
    \/ \E t \in Callers : NewSubscribe(t)
    \/ \E t \in Callers : NewReturn(t)
    \/ /\ Constructing
       /\ \E t \in Callers, p \in SmallPeers, proto \in AllProtocols :
             StreamOpen(t, p, proto)
    \/ \E t \in Callers : HandleSteps(t)
    \/ \E ch \in pulls, e \in ChannelEndings : ManagerEvent(ch, e)
    \/ /\ Constructing
       /\ \E p \in SmallPeers, v \in RequestVouchers, c \in CIDs :
             PullRequest(p, v, c, "all", TRUE, FALSE)

SpecNew == InitNew /\ [][NextNew]_vars

\* a Network of its own: NewNetwork(h, regions), then its user sets a
\* delegate, or none, while remote peers open streams
InitNetwork ==
    /\ regions \in RegionConfigs
    /\ auth = [c \in {} |-> {}]
    /\ authLog = {}
    /\ dispatched = {}
    /\ msNext = 0
    /\ index = [c \in {} |-> <<>>]
    /\ pulls = {}
    /\ stores = {}
    /\ responses = <<>>
    /\ events = <<>>
    /\ thread = [st |-> "idle"]
    /\ mu = Unlocked
    /\ calls = [t \in Callers |-> Idle]
    /\ net = NewNetwork
    /\ dt = ManagerOfSupply
    /\ registered = {}
    /\ last = [op |-> "NewNetwork"]

NextNetwork ==
    \/ \E sr \in {NilReceiver, HandlerReceiver} : SetDelegateCall(sr)
    \/ \E t \in Callers, p \in SmallPeers, proto \in AllProtocols : StreamOpen(t, p, proto)
    \/ \E t \in Callers : HandleSteps(t)

SpecNetwork == InitNetwork /\ [][NextNetwork]_vars

----------------------------------------------------------------------------
(* Vocabulary of the properties: what the last Dispatch was given *)

IsDispatch == last.op = "Dispatch"

\* the node's region protocol identifiers
NodeProtocols == {<<RequestProtocol, regions[i].Name>> : i \in 1..Len(regions)}

\* p is a remote peer the peer-store reports as supporting a region protocol
EligiblePeer(p) ==
    /\ p # Self
    /\ <<p, "pserr">> \notin last.faults
    /\ Advertised(last.faults, p) \cap NodeProtocols # {}

\* the positions of the connection list that hold an eligible peer
EligibleEntries == {i \in 1..Len(last.conns) : EligiblePeer(last.conns[i])}
EligiblePeers == {last.conns[i] : i \in EligibleEntries}

\* the peers the call authorized, and those it opened a stream to
AuthorizedByCall == {last.authWrites[i][2] : i \in 1..Len(last.authWrites)}
StreamedByCall == Range(last.attempts)

\* the peers whose stream open or write fails in the last Dispatch
FailingPeers == {p \in Peers : <<p, "open">> \in last.faults \/ <<p, "write">> \in last.faults}

----------------------------------------------------------------------------
(* C1: one Dispatch targets exactly min(n, MaxReceiverCount) peers, n the   *)
(* number of eligible peers, with at most MaxReceiverCount Authorize writes  *)
(* and at most MaxReceiverCount stream opens.                                *)
C1_TargetsMinOfEligible ==
    IsDispatch =>
        /\ Cardinality(AuthorizedByCall \cup StreamedByCall)
             = Min(Cardinality(EligiblePeers), MaxReceiverCount)
        /\ Len(last.authWrites) <= MaxReceiverCount
        /\ Len(last.attempts) <= MaxReceiverCount

----------------------------------------------------------------------------
(* C2: ValidatePull allows (cid, receiver) exactly when Authorize(cid,       *)
(* receiver) has happened before, directly or through Dispatch; once some    *)
(* peer is authorized for cid, a peer never authorized for it is refused     *)
(* with not-authorized.                                                      *)
C2_PullAllowedIffAuthorized ==
    /\ \A c \in CIDs, p \in SmallPeers \cup {Self}, v \in Requests, s \in Selectors :
          \A res \in {ValidatePull(auth, p, v, c, s)} :
              /\ res.err = NoErr <=> <<c, p>> \in authLog
              /\ ((\E q \in SmallPeers : <<c, q>> \in authLog) /\ <<c, p>> \notin authLog)
                    => res.err = "not authorized"
    /\ last.op = "ValidatePull" =>
          (last.err = NoErr <=> <<last.cid, last.peer>> \in authLog)

\* a pull by a peer that a Dispatch authorized is allowed while another
\* peer, never authorized for that CID, would be refused
C2_Witness ==
    /\ last.op = "ValidatePull"
    /\ last.err = NoErr
    /\ last.cid \in dispatched
    /\ \E q \in SmallPeers :
          /\ <<last.cid, q>> \notin authLog
          /\ ValidatePull(auth, q, last.voucher, last.cid, last.selector).err = "not authorized"

(* C3: ValidatePull reports unknown-cid exactly when the table has no entry  *)
(* for the base CID, not-authorized exactly when the entry exists and does   *)
(* not hold the receiver, and never changes the table.                       *)
C3_PullErrors ==
    [][last'.op = "ValidatePull" =>
          /\ auth' = auth
          /\ last'.err = "unknown CID" <=> last'.cid \notin DOMAIN auth
          /\ last'.err = "not authorized" <=>
                (last'.cid \in DOMAIN auth /\ last'.peer \notin auth[last'.cid])]_vars

\* a pull refused as unknown-cid although the receiver is authorized for
\* another CID
C3_Witness ==
    /\ last.op = "ValidatePull"
    /\ last.err = "unknown CID"
    /\ last.cid \notin DOMAIN auth
    /\ \E c \in DOMAIN auth : last.peer \in auth[c]

(* C4: ValidatePush rejects whatever the sender, voucher, base CID and       *)
(* selector, also when the sender may pull that CID, and leaves the table    *)
(* unchanged.                                                                *)
C4_PushRejected ==
    [][last'.op = "ValidatePush" =>
          /\ last'.err = "no pushed accepted"
          /\ auth' = auth]_vars

\* a rejected push by a sender that is authorized to pull the CID
C4_Witness ==
    /\ last.op = "ValidatePush"
    /\ last.err # NoErr
    /\ last.cid \in DOMAIN auth
    /\ last.peer \in auth[last.cid]

\* the inbound requests for c that HandleRequest answered by opening a pull
InboundFrom(c) == {ch.peer : ch \in {x \in pulls : x.root = c}}

(* C5 (as stated): after the node handled an inbound request for a CID it    *)
(* never dispatched, a pull of that CID by an unrelated peer is refused with  *)
(* not-authorized.                                                            *)
C5_UnrelatedPullNotAuthorized ==
    ( /\ last.op = "ValidatePull"
      /\ last.cid \notin dispatched
      /\ InboundFrom(last.cid) \ {last.peer} # {}
      /\ <<last.cid, last.peer>> \notin authLog )
    => last.err = "not authorized"

(* C5 (amended): after the node handled an inbound request for a CID it      *)
(* never dispatched, a pull of that CID by a peer never authorized for it is  *)
(* refused: with unknown-cid when the table has no entry for the CID, with    *)
(* not-authorized only when it has one; handling an inbound request leaves    *)
(* the authorization table unchanged.                                         *)
C5_UnrelatedPullRefused ==
    [][/\ last'.op = "HandleRequest" => auth' = auth
       /\ ( /\ last'.op = "ValidatePull"
            /\ last'.cid \notin dispatched
            /\ InboundFrom(last'.cid) # {}
            /\ <<last'.cid, last'.peer>> \notin authLog )
          => /\ last'.err # NoErr
             /\ last'.err = "unknown CID" <=> ~(\E q \in SmallPeers : <<last'.cid, q>> \in authLog)
             /\ last'.err = "not authorized" <=> (\E q \in SmallPeers : <<last'.cid, q>> \in authLog)]_vars

\* the node indexed a CID and pulls it from one peer; another peer's pull of
\* that CID is refused as unknown-cid
C5_Witness ==
    /\ last.op = "ValidatePull"
    /\ last.cid \notin dispatched
    /\ last.cid \in DOMAIN index
    /\ InboundFrom(last.cid) \ {last.peer} # {}
    /\ last.err = "unknown CID"
    /\ DOMAIN auth = {}

(* C6: authorization is additive: no step removes a peer from the set of a   *)
(* CID or deletes an entry, and an entry exists only for a CID some          *)
(* Authorize was called for.                                                 *)
C6_AuthorizationAdditive ==
    [][/\ \A c \in DOMAIN auth : c \in DOMAIN auth' /\ auth[c] \subseteq auth'[c]
       /\ \A c \in DOMAIN auth' : \E p \in auth'[c] : <<c, p>> \in authLog']_vars

\* a transfer event arrives while a dispatched CID has two authorized peers
\* and an inbound pull is open
C6_Witness ==
    /\ last.op = "TransferEvent"
    /\ pulls # {}
    /\ \E c \in DOMAIN auth : c \in dispatched /\ Cardinality(auth[c]) >= 2

(* C7: when no connected peer is eligible, Dispatch returns the no-peers    *)
(* error with Count 0, writes no authorization and opens no stream.         *)
C7_NoPeersNoEffect ==
    (IsDispatch /\ EligibleEntries = {}) =>
        /\ last.err = ErrNoPeers
        /\ last.Count = 0
        /\ last.authWrites = <<>>
        /\ last.attempts = <<>>
        /\ last.streams = <<>>
        /\ DOMAIN auth = {}
        /\ authLog = {}

\* a Dispatch whose only connections are to the host itself and to a peer of
\* another region
C7_Witness ==
    /\ IsDispatch
    /\ Self \in Range(last.conns)
    /\ \E p \in Range(last.conns) : <<p, "other">> \in last.faults
    /\ EligibleEntries = {}
    /\ last.err = ErrNoPeers

(* C8: every peer Dispatch authorizes or opens a stream to is connected, is  *)
(* not the host itself and is reported to support a region protocol of the   *)
(* node.                                                                     *)
C8_OnlyEligibleSelected ==
    IsDispatch =>
        \A E \in {EligiblePeers} :
            AuthorizedByCall \cup StreamedByCall \cup UNION {auth[c] : c \in DOMAIN auth} \subseteq E

\* a Dispatch that selects peers while connected to itself or to a peer the
\* peer-store does not report as supporting a region protocol
C8_Witness ==
    /\ IsDispatch
    /\ last.Count >= 2
    /\ \E p \in Range(last.conns) :
          p = Self \/ <<p, "other">> \in last.faults \/ <<p, "pserr">> \in last.faults
    /\ \E p \in Range(last.conns) : p # Self /\ ~EligiblePeer(p)

C10_OneRequestPerPeer ==
    (IsDispatch /\ last.err = NoErr /\ FailingPeers \cap Range(last.providers) = {}) =>
        /\ \A p \in Range(last.providers) :
              /\ Cardinality({k \in 1..Len(last.delivered) : last.delivered[k].to = p}) = 1
              /\ \A k \in 1..Len(last.delivered) :
                    last.delivered[k].to = p => last.delivered[k].req = last.r
        /\ last.Count = Cardinality({last.delivered[k].to : k \in 1..Len(last.delivered)})

----------------------------------------------------------------------------
(* Vocabulary of the properties: responses and events *)

IsOpen(res) == res.subscribed /\ ~res.closed

\* ev reports a completed transfer of the payload res was dispatched for
CompletionFor(res, ev) == ev.status = "Completed" /\ ev.cid = res.cid

\* the callback thread is inside the send of the i-th response
SendingAt(th, i) == th.st = "sending" /\ th.at = i

\* how many of the records read from res name peer p
RecordsNaming(res, p) ==
    Cardinality({k \in 1..Len(res.records) : res.records[k].Provider = p})

----------------------------------------------------------------------------
(* C11: while a response is open, the callback sends one record for every    *)
(* event with status Completed and the dispatched base CID, naming the       *)
(* event's recipient and the root, and the caller's Next reads that record;  *)
(* an event with another status or another base CID sends nothing.           *)
C11_CompletionYieldsRecord ==
    [][/\ last'.op = "DeliverEvent" =>
            \A i \in 1..Len(responses) :
                /\ responses'[i].records = responses[i].records
                /\ SendingAt(thread', i) <=>
                       /\ IsOpen(responses[i])
                       /\ CompletionFor(responses[i], Head(events))
                       /\ ~\E j \in 1..(i - 1) :
                             IsOpen(responses[j]) /\ CompletionFor(responses[j], Head(events))
       /\ (last'.op = "Next" /\ last'.how = "record") =>
            /\ IsOpen(responses[last'.res])
            /\ CompletionFor(responses[last'.res], thread.ev)
            /\ last'.rec = [Provider |-> thread.ev.recipient,
                            PayloadCID |-> responses[last'.res].cid]
            /\ \A i \in 1..Len(responses) :
                  /\ responses'[i].records =
                        IF i = last'.res THEN Append(responses[i].records, last'.rec)
                        ELSE responses[i].records
                  /\ SendingAt(thread', i) <=>
                        /\ i > last'.res
                        /\ IsOpen(responses[i])
                        /\ CompletionFor(responses[i], thread.ev)
                        /\ ~\E j \in (last'.res + 1)..(i - 1) :
                              IsOpen(responses[j]) /\ CompletionFor(responses[j], thread.ev)]_vars

\* the caller of an open response reads the record of a completed transfer
\* to the remote peer, after an event that sent nothing
C11_Witness ==
    /\ last.op = "Next"
    /\ last.how = "record"
    /\ IsOpen(responses[last.res])
    /\ last.rec = [Provider |-> 1, PayloadCID |-> responses[last.res].cid]
    /\ responses[last.res].records = <<last.rec>>

(* C12: on every response, at most one of the records read names a given     *)
(* peer.                                                                     *)
C12_OneRecordPerPeer ==
    \A i \in 1..Len(responses), p \in ResponsePeers : RecordsNaming(responses[i], p) <= 1

(* C13: Next returns a record and no error only when it reads the record a   *)
(* callback sends for a completed transfer of the dispatched CID; otherwise  *)
(* it returns the error of the cancelled context and the empty record.       *)
C13_NextRecordOrCancel ==
    [][last'.op = "Next" =>
          IF last'.err = NoErr
          THEN /\ SendingAt(thread, last'.res)
               /\ CompletionFor(responses[last'.res], thread.ev)
               /\ last'.rec = PRecord(thread.ev)
          ELSE /\ last'.err = "context canceled"
               /\ last'.rec = EmptyRecord]_vars

(* C14: once a response is closed its subscription is detached and its       *)
(* channel closed; an event delivered afterwards, also a completion of the   *)
(* dispatched CID, sends nothing to it, does not block the callback thread   *)
(* on it and does not make it panic, and no record is read from it.          *)
C14_ClosedDropsEvents ==
    [][/\ \A i \in 1..Len(responses') :
             responses'[i].closed => ~responses'[i].subscribed
       /\ (last'.op = "Close" /\ ~responses[last'.res].closed) =>
             /\ responses'[last'.res].closed
             /\ ~responses'[last'.res].subscribed
       /\ (last'.op \in {"DeliverEvent", "Next"}) =>
             \A i \in 1..Len(responses) :
                 responses[i].closed =>
                     /\ ~SendingAt(thread', i)
                     /\ thread'.st # "panicked"
                     /\ responses'[i].records = responses[i].records
                     /\ responses'[i].closed]_vars

\* a completion of the dispatched CID is delivered after the response was
\* closed, and the callback thread is free again
C14_Witness ==
    /\ last.op = "DeliverEvent"
    /\ Len(responses) >= 1
    /\ responses[1].closed
    /\ CompletionFor(responses[1], last.ev)
    /\ thread.st = "idle"
    /\ responses[1].records = <<>>

\* an Error event for a transfer of c to the local peer waits for delivery
ErrorWaiting(c) ==
    \E k \in 1..Len(events) :
        /\ events[k].code = "Error"
        /\ events[k].recipient = Self
        /\ events[k].cid = c

(* C15: once the manager has published an Error event whose recipient is the *)
(* local peer, the index entry of its base CID is eventually removed,        *)
(* whatever responses are open.                                              *)
C15_ErrorCleansIndex ==
    \A c \in CIDs :
        (ErrorWaiting(c) /\ thread.st # "panicked")
            ~> (c \notin DOMAIN index \/ thread.st = "panicked")

----------------------------------------------------------------------------
(* Vocabulary of the properties: the content index *)

\* str is a non-empty string of decimal digits
IsDecimal(str) == str # <<>> /\ \A i \in 1..Len(str) : str[i] \in Range(DigitChars)

(* C16: for every CID in the content index, GetStoreID returns a store       *)
(* identifier and the multistore holds a store of that identifier.           *)
C16_IndexedStoreExists ==
    \A c \in DOMAIN index :
        \A found \in {GetStoreID(index, c)} :
            /\ found.err = NoErr
            /\ found.sid \in stores

(* C17: RemoveContent of an indexed CID deletes its store and removes its    *)
(* entry, after which GetStoreID fails with not-found; when the lookup of    *)
(* the store identifier fails it returns that error and changes neither the  *)
(* multistore nor the index; when deleting the store fails the entry stays.  *)
C17_RemoveContent ==
    [][last'.op = "RemoveContent" =>
          \A found \in {GetStoreID(index, last'.cid)} :
              IF found.err # NoErr
              THEN /\ last'.err = found.err
                   /\ stores' = stores
                   /\ index' = index
              ELSE IF last'.deleteFails
              THEN /\ last'.err # NoErr
                   /\ last'.cid \in DOMAIN index'
                   /\ index' = index
                   /\ stores' = stores
              ELSE /\ last'.err = NoErr
                   /\ found.sid \notin stores'
                   /\ stores' = stores \ {found.sid}
                   /\ last'.cid \notin DOMAIN index'
                   /\ GetStoreID(index', last'.cid).err = "not found"
                   /\ \A c \in DOMAIN index \ {last'.cid} :
                         c \in DOMAIN index' /\ index'[c] = index[c]]_vars

\* the content of an inbound request is removed while other content stays
\* indexed: its store is gone and so is its entry
C17_Witness ==
    /\ last.op = "RemoveContent"
    /\ last.err = NoErr
    /\ last.sid = msNext
    /\ last.sid >= 1
    /\ last.sid \notin stores
    /\ GetStoreID(index, last.cid).err = "not found"
    /\ DOMAIN index # {}

(* C18: after Register(cid, sid) GetStoreID(cid) returns sid, whatever the   *)
(* entry was before; GetStoreID fails with one error when the record is      *)
(* missing, another when it has no storeID label and a third when the label  *)
(* is not an unsigned decimal integer.                                       *)
C18_RegisterThenGetStoreID ==
    [][/\ (last'.op = "Register" /\ last'.err = NoErr) =>
             GetStoreID(index', last'.cid) = [sid |-> last'.sid, err |-> NoErr]
       /\ \A c \in CIDs :
             \A found \in {GetStoreID(index', c)} :
                 /\ found.err \in {NoErr, "not found", "storeID not found", "invalid syntax"}
                 /\ found.err = "not found" <=> c \notin DOMAIN index'
                 /\ found.err = "storeID not found" <=>
                       (c \in DOMAIN index' /\ KStoreID \notin DOMAIN index'[c])
                 /\ found.err = "invalid syntax" <=>
                       /\ c \in DOMAIN index'
                       /\ KStoreID \in DOMAIN index'[c]
                       /\ ~IsDecimal(index'[c][KStoreID])]_vars

\* a two-digit store identifier is registered and read back, while the
\* record of another CID has no label
C18_Witness ==
    /\ last.op = "Register"
    /\ last.err = NoErr
    /\ last.sid >= 10
    /\ GetStoreID(index, last.cid).sid = last.sid
    /\ \E c \in DOMAIN index : GetStoreID(index, c).err = "storeID not found"

(* C19: no two distinct payload CIDs of the content index name the same      *)
(* store, so the transport configurer routes the channels of distinct        *)
(* payloads to distinct stores.                                              *)
C19_OneStorePerPayload ==
    \A c1, c2 \in DOMAIN index :
        c1 # c2 =>
            \A s1 \in {ConfiguredStore(index, c1)}, s2 \in {ConfiguredStore(index, c2)} :
                (s1.routed /\ s2.routed) => s1.sid # s2.sid

----------------------------------------------------------------------------
(* C20: ParseRegions returns one Region per name, in the order of the names: *)
(* the preset of a preset name, otherwise a region of that name with the     *)
(* CustomRegion code; protoRegions returns one identifier base/name per      *)
(* region, in the same order.                                                *)
C20_RegionsFollowNames ==
    last.op = "NewSupply" =>
        /\ Len(regions) = Len(last.names)
        /\ Len(last.protocols) = Len(last.names)
        /\ \A i \in 1..Len(last.names) :
              /\ regions[i].Name = last.names[i]
              /\ last.names[i] \in PresetNames => regions[i] = Regions[last.names[i]]
              /\ last.names[i] \notin PresetNames => regions[i].Code = "CustomRegion"
              /\ regions[i].Code = "CustomRegion" => last.names[i] \notin PresetNames
              /\ last.protocols[i] = <<RequestProtocol, last.names[i]>>

\* a configuration that names a region of the user's before a preset
C20_Witness ==
    /\ last.op = "NewSupply"
    /\ Len(last.names) = 2
    /\ last.names[1] \notin PresetNames
    /\ last.names[2] \in PresetNames
    /\ regions[1].Code = "CustomRegion"
    /\ regions[2] = Regions[last.names[2]]
    /\ last.protocols = <<<<RequestProtocol, last.names[1]>>, <<RequestProtocol, last.names[2]>>>>

----------------------------------------------------------------------------
(* Vocabulary of the properties: miners *)

\* addr is the ID address the miner identifier m spells
IsAddressOf(addr, m) ==
    /\ addr.Protocol = "ID"
    /\ Len(m) >= 3
    /\ m[1] = "f"
    /\ m[2] = "0"
    /\ FormatUint(addr.ID) = SubSeq(m, 3, Len(m))

\* addrs are the addresses of the miner identifiers ms, in order
AreAddressesOf(addrs, ms) ==
    /\ Len(addrs) = Len(ms)
    /\ \A i \in 1..Len(ms) : IsAddressOf(addrs[i], ms[i])

\* the miner lists of the regions regs, one after the other
RECURSIVE MinersInOrder(_)
MinersInOrder(regs) ==
    IF regs = <<>> THEN <<>>
    ELSE Head(regs).StorageMiners \o MinersInOrder(Tail(regs))

(* C21: ListMiners returns the miner list of the Global preset, and no       *)
(* error, when a configured region is named Global, whatever its place in    *)
(* the region list and whatever regions stand beside it; with no region      *)
(* named Global it returns the miner lists of the regions one after the      *)
(* other, in region order.                                                   *)
C21_ListMinersGlobalOrConcat ==
    last.op = "ListMiners" =>
        /\ last.err = NoErr
        /\ IF \E i \in 1..Len(last.names) : last.names[i] = "Global"
           THEN AreAddressesOf(last.addrs, global.StorageMiners)
           ELSE AreAddressesOf(last.addrs, MinersInOrder(regions))

\* the miners of a node configured with a region that has miners of its own
\* and then Global
C21_Witness ==
    /\ last.op = "ListMiners"
    /\ last.names = <<"Asia", "Global">>
    /\ Len(last.addrs) = Len(global.StorageMiners)
    /\ last.addrs[1] = [Protocol |-> "ID", ID |-> 2301]

(* C22: the miner list of the Global preset holds every miner of every       *)
(* other preset region: whichever preset regions a node is configured with,  *)
(* each of their miners appears in the list of Global.                       *)
C22_GlobalHoldsAllMiners ==
    \A i \in 1..Len(regions) :
        regions[i].Name \in PresetNames =>
            Range(regions[i].StorageMiners) \subseteq Range(global.StorageMiners)

----------------------------------------------------------------------------
(* Vocabulary of the properties: calls in progress *)

InDispatch(t) == calls[t].op = "Dispatch"

\* s is an initial part of q
IsPrefix(s, q) == Len(s) <= Len(q) /\ \A i \in 1..Len(s) : s[i] = q[i]

\* the table lets peer p pull the payload k
MayPull(tbl, k, p) == k \in DOMAIN tbl /\ p \in tbl[k]

\* the selection of the call c has ended
SelectionDone(c) == c.providers # <<>> \/ c.err # NoErr

(* C23: in a Dispatch call the providers are selected before the first       *)
(* Authorize write, and every selected provider is authorized before the     *)
(* first stream is opened; so every peer a request for a CID was written to  *)
(* is in the authorized set of that CID and its pull would be allowed.       *)
C23_SelectAuthorizeSend ==
    /\ \A t \in Callers :
          InDispatch(t) =>
              \A c \in {calls[t]} :
                  /\ IsPrefix(c.authWrites, c.providers)
                  /\ c.attempts # <<>> => c.authWrites = c.providers
                  /\ \A k \in 1..Len(c.attempts) :
                        MayPull(auth, c.r.PayloadCID, c.attempts[k])
                  /\ \A k \in 1..Len(c.delivered) :
                        /\ c.delivered[k].req = c.r
                        /\ MayPull(auth, c.r.PayloadCID, c.delivered[k].to)
                        /\ ValidatePull(auth, c.delivered[k].to, c.r, c.r.PayloadCID,
                                        "all").err = NoErr
    /\ last.op = "DispatchReturn" =>
          \A k \in 1..Len(last.delivered) :
              MayPull(auth, last.r.PayloadCID, last.delivered[k].to)

\* a Dispatch between two sends: the first of two providers has its request,
\* the second has none yet, both are authorized
C23_Witness ==
    \E t \in Callers :
        /\ InDispatch(t)
        /\ calls[t].pc = "send"
        /\ Len(calls[t].providers) = 2
        /\ calls[t].providers[1] # calls[t].providers[2]
        /\ Len(calls[t].delivered) = 1
        /\ Len(calls[t].attempts) = 1
        /\ \A k \in 1..2 : MayPull(auth, calls[t].r.PayloadCID, calls[t].providers[k])

(* C24: the subscription of a Dispatch is installed before its selection     *)
(* ends and stays while the call runs, so it is there once a request is      *)
(* written; a Completed event for the dispatched CID delivered after a       *)
(* request of the call was written makes the subscription send its record.   *)
C24_SubscribedBeforeRequests ==
    [][/\ \A t \in Callers :
             (calls'[t].op = "Dispatch"
                 /\ (SelectionDone(calls'[t]) \/ calls'[t].attempts # <<>>))
             => IsOpen(responses'[calls'[t].res])
       /\ (events # <<>> /\ events' = Tail(events)) =>
             \A t \in Callers :
                 ( /\ InDispatch(t)
                   /\ calls[t].delivered # <<>>
                   /\ CompletionFor(responses[calls[t].res], Head(events))
                   /\ \A j \in 1..(calls[t].res - 1) :
                         ~Matches(responses[j], Head(events)) )
                 => /\ SendingAt(thread', calls[t].res)
                    /\ thread'.ev = Head(events)]_vars

\* the completion of the transfer to a peer the running Dispatch has written
\* to is being handed to its response
C24_Witness ==
    \E t \in Callers :
        /\ InDispatch(t)
        /\ calls[t].pc \in {"send", "return"}
        /\ SendingAt(thread, calls[t].res)
        /\ \E k \in 1..Len(calls[t].delivered) :
              calls[t].delivered[k].to = thread.ev.recipient
        /\ thread.ev.cid = calls[t].r.PayloadCID

\* the call c holds the Validator's mutex
InCritical(c) ==
    /\ c.op \in {"Authorize", "ValidatePull"}
    /\ c.pc \in {"lookup", "store", "check", "unlock"}

\* the step takes the call of t from position a to position b
Moves(t, op, a, b) ==
    /\ calls[t].op = op
    /\ calls[t].pc = a
    /\ calls'[t].op = op
    /\ calls'[t].pc = b

(* C25: Authorize and ValidatePull on different threads exclude each other   *)
(* on the table: at most one of them is between Lock and Unlock, only that   *)
(* one changes the table, an Authorize changes it as the undivided Authorize *)
(* would, the grant of every completed Authorize stays in the table, also    *)
(* when two calls race to create the entry, and a ValidatePull decides on a  *)
(* table that holds every grant completed before it looked.                  *)
C25_ValidatorMutualExclusion ==
    [][/\ Cardinality({t \in Callers : InCritical(calls'[t])}) <= 1
       /\ \A t \in Callers : InCritical(calls'[t]) => mu' = t
       /\ \A g \in authLog' : MayPull(auth', g[1], g[2])
       /\ auth' # auth => \E t \in Callers : mu = t /\ Moves(t, "Authorize", "store", "unlock")
       /\ \A t \in Callers :
             /\ Moves(t, "Authorize", "store", "unlock") =>
                   auth' = Authorize(auth, calls[t].cid, calls[t].peer)
             /\ Moves(t, "ValidatePull", "check", "unlock") =>
                   /\ auth' = auth
                   /\ \A g \in authLog : MayPull(auth, g[1], g[2])
                   /\ calls'[t].err = NoErr <=> MayPull(auth, calls[t].cid, calls[t].peer)
                   /\ <<calls[t].cid, calls[t].peer>> \in authLog => calls'[t].err = NoErr
                   /\ calls'[t].err = "unknown CID" <=> calls[t].cid \notin DOMAIN auth]_vars

\* two threads authorize different peers for a CID that has no entry: one is
\* about to create the entry, the other waits for the mutex
C25_Witness ==
    \E t1, t2 \in Callers :
        /\ calls[t1].op = "Authorize"
        /\ calls[t1].pc = "store"
        /\ ~calls[t1].ok
        /\ calls[t2].op = "Authorize"
        /\ calls[t2].pc = "lock"
        /\ calls[t2].cid = calls[t1].cid
        /\ calls[t2].peer # calls[t1].peer
        /\ calls[t1].cid \notin DOMAIN auth

----------------------------------------------------------------------------
(* Vocabulary of the properties: inbound requests and their transfers *)

\* the labels HandleRequest writes for store sid and request req
InboundLabels(sid, req) ==
    [l \in {KStoreID, KSize} |->
        IF l = KStoreID THEN FormatUint(sid) ELSE FormatUint(req.Size)]

\* the step changes the status of a pull channel: the manager reported an event
ChannelReported == \E ch \in pulls : ch \notin pulls'

(* C26: HandleRequest reads the request, then allocates a store identifier,  *)
(* then writes the index entry (that identifier and the advertised size),    *)
(* then opens a pull from the sender with the payload CID as root, then      *)
(* closes the stream; a failed read or index write ends the call with no     *)
(* pull opened, a failed pull leaves the index as it is.                     *)
C26_HandleRequestOrder ==
    [][\A t \in Callers :
          \A c \in {calls[t]}, d \in {calls'[t]} :
              (c.op = "HandleRequest" /\ d # c) =>
                  CASE c.pc = "read" ->
                         /\ msNext' = msNext /\ index' = index /\ pulls' = pulls
                         /\ \/ d.pc = "allocate" /\ d.outcome = "running"
                            \/ d.pc = "close" /\ d.outcome = "decode-failure"
                    [] c.pc = "allocate" ->
                         /\ msNext' = msNext + 1 /\ index' = index /\ pulls' = pulls
                         /\ d.storeID = msNext'
                         /\ d.pc = "put"
                    [] c.pc = "put" ->
                         /\ msNext' = msNext /\ pulls' = pulls
                         /\ c.storeID \in 1..msNext
                         /\ \/ /\ d.pc = "pull"
                               /\ index' = PutRecord(index, c.req.PayloadCID,
                                                     InboundLabels(c.storeID, c.req))
                               /\ GetStoreID(index', c.req.PayloadCID)
                                     = [sid |-> c.storeID, err |-> NoErr]
                            \/ /\ d.pc = "close"
                               /\ d.outcome = "put-failure"
                               /\ index' = index
                    [] c.pc = "pull" ->
                         /\ msNext' = msNext /\ index' = index
                         /\ d.pc = "close"
                         /\ \/ /\ d.outcome = "pull-opened"
                               /\ \E ch \in pulls' \ pulls :
                                     /\ pulls' = pulls \cup {ch}
                                     /\ ch.peer = c.peer
                                     /\ ch.root = c.req.PayloadCID
                                     /\ ch.voucher = c.req
                                     /\ ch.selector = "all"
                            \/ /\ d.outcome = "pull-failure"
                               /\ pulls' = pulls
                    [] c.pc = "close" ->
                         /\ msNext' = msNext /\ index' = index /\ pulls' = pulls
                         /\ d = Idle
                         /\ last'.closed]_vars

\* an inbound request whose pull could not be opened: its index entry is
\* there, naming the store allocated for it, and there is no channel
C26_Witness ==
    \E t \in Callers :
        /\ calls[t].op = "HandleRequest"
        /\ calls[t].pc = "close"
        /\ calls[t].outcome = "pull-failure"
        /\ GetStoreID(index, calls[t].req.PayloadCID)
              = [sid |-> calls[t].storeID, err |-> NoErr]
        /\ \A ch \in pulls : ch.root # calls[t].req.PayloadCID

(* C27: a pull channel is opened only by a HandleRequest that has allocated  *)
(* a store and written the index entry; a running transfer ends as Completed *)
(* or as Failed, and when it fails the index entry of its CID is removed;    *)
(* a transfer that has ended changes no more, and once a transfer is         *)
(* Completed no further event removes the index entry of its CID.            *)
C27_InboundTransferStates ==
    [][/\ \A ch \in pulls' \ pulls :
             ch.status = "Ongoing" =>
                 \E t \in Callers :
                     /\ Moves(t, "HandleRequest", "pull", "close")
                     /\ calls[t].storeID >= 1
                     /\ ch.root = calls[t].req.PayloadCID
       /\ \A ch \in pulls :
             /\ ch.status # "Ongoing" => ch \in pulls'
             /\ (ch.status = "Ongoing" /\ ch \notin pulls') =>
                   \/ [ch EXCEPT !.status = "Completed"] \in pulls'
                   \/ /\ [ch EXCEPT !.status = "Failed"] \in pulls'
                      /\ ch.root \notin DOMAIN index'
             /\ (ch.status = "Completed" /\ ChannelReported /\ ch.root \in DOMAIN index) =>
                   ch.root \in DOMAIN index']_vars

----------------------------------------------------------------------------
(* C28: the subscription of New changes the content index only for an event  *)
(* with code Error whose recipient is the local peer, and then only by       *)
(* dropping the entry of the event's base CID; an event with another code,   *)
(* or an Error event of a transfer to another peer, leaves the index as it   *)
(* is.                                                                       *)
C28_CleanupOnlyLocalErrors ==
    [][last'.op = "DeliverEvent" =>
          \A ev \in {Head(events)} :
              IF ev.code = "Error" /\ ev.recipient = Self
              THEN /\ DOMAIN index' = DOMAIN index \ {ev.cid}
                   /\ \A c \in DOMAIN index' : index'[c] = index[c]
              ELSE index' = index]_vars

\* the transfer of dispatched content to a remote peer fails while the node
\* holds an index entry for that content: the entry stays
C28_Witness ==
    /\ last.op = "DeliverEvent"
    /\ last.ev.code = "Error"
    /\ last.ev.recipient # Self
    /\ last.ev.cid \in dispatched
    /\ last.ev.cid \in DOMAIN index

(* C29: when the cleanup of a failed inbound transfer removes an index       *)
(* entry, the store that entry named is deleted from the multistore in the   *)
(* same step.                                                                *)
C29_CleanupDeletesStore ==
    [][last'.op = "TransferEvent" =>
          \A c \in DOMAIN index \ DOMAIN index' :
              \A found \in {GetStoreID(index, c)} :
                  found.err = NoErr => found.sid \notin stores']_vars

(* C30: the transport configurer calls UseStore once, with the store the     *)
(* content index maps the voucher's payload CID to, when the voucher is a    *)
(* Request, the transport can be given a store and the store is resolved;    *)
(* otherwise it does not call UseStore and changes nothing; in no case does  *)
(* it change the index, the authorization table or the channels.             *)
C30_ConfigurerRoutesOrReturns ==
    [][last'.op = "Configure" =>
          /\ index' = index /\ auth' = auth /\ authLog' = authLog
          /\ msNext' = msNext /\ pulls' = pulls
          /\ \A found \in {GetStoreID(index, last'.voucher.PayloadCID)} :
                IF /\ last'.voucher.Type = RequestVoucherType
                   /\ last'.capable
                   /\ found.err = NoErr
                   /\ ~last'.getFails
                THEN /\ last'.useStore = <<found.sid>>
                     /\ stores \subseteq stores'
                     /\ stores' \subseteq stores \cup {found.sid}
                ELSE /\ last'.useStore = <<>>
                     /\ stores' = stores]_vars

\* a channel with a Request voucher whose payload has a malformed index
\* record: no store is used, while another payload is indexed and a peer is
\* authorized
C30_Witness ==
    /\ last.op = "Configure"
    /\ last.voucher.Type = RequestVoucherType
    /\ last.capable
    /\ last.useStore = <<>>
    /\ last.warned
    /\ GetStoreID(index, last.voucher.PayloadCID).err = "invalid syntax"
    /\ \E c \in DOMAIN index : GetStoreID(index, c).err = NoErr
    /\ DOMAIN auth # {}

----------------------------------------------------------------------------
(* Vocabulary of the properties: construction and inbound streams *)

\* the voucher type and the transport configurer of Request are registered
ConfigurerRegistered ==
    /\ RequestVoucherType \in dt.voucherTypes
    /\ RequestVoucherType \in dt.configurers

\* the protocols of the node's Network
ConfiguredProtocols == Range(protoRegions(RequestProtocol, regions))

(* C31: while Supply.New runs and afterwards, a stream handler is installed, *)
(* an inbound stream is being handled, a pull channel exists or a pull of a  *)
(* remote peer is allowed only when the voucher type and the transport       *)
(* configurer have been registered.                                          *)
C31_ConfigurerBeforeHandlers ==
    /\ net.handlers # {} => ConfigurerRegistered
    /\ net.receiver # NilReceiver => ConfigurerRegistered
    /\ (\E t \in Callers : calls[t].op \in {"handleStream", "HandleRequest"})
          => ConfigurerRegistered
    /\ pulls # {} => ConfigurerRegistered
    /\ last.op = "PullRequest" =>
          /\ RequestVoucherType \in dt.voucherTypes
          /\ last.err = NoErr => ConfigurerRegistered

\* New has not returned yet and an inbound request has already opened a pull
C31_Witness ==
    /\ calls[1].op = "New"
    /\ calls[1].pc = "subscribe"
    /\ \E ch \in pulls : ch.status = "Ongoing" /\ ch.voucher.PayloadCID = ch.root
    /\ ConfigurerRegistered

(* C32: a stream handed to handleStream while the Network has no receiver    *)
(* is reset and nothing else happens: no handler runs, no store identifier   *)
(* is allocated, no index entry is written, no pull is opened.  With a       *)
(* receiver the stream goes to HandleRequest with the remote peer of the     *)
(* stream.  Once SetDelegate has set a receiver, every protocol of the       *)
(* configuration has a stream handler and no stream on one is refused.       *)
C32_NoReceiverResets ==
    [][/\ \A t \in Callers :
             (calls[t].op = "handleStream" /\ calls'[t] # calls[t]) =>
                 IF net.receiver = NilReceiver
                 THEN /\ calls'[t] = Idle
                      /\ last' = [op |-> "handleStream", peer |-> calls[t].remote,
                                  proto |-> calls[t].proto, outcome |-> "reset"]
                      /\ msNext' = msNext /\ index' = index
                      /\ pulls' = pulls /\ stores' = stores
                 ELSE /\ calls'[t].op = "HandleRequest"
                      /\ calls'[t].pc = "read"
                      /\ calls'[t].peer = calls[t].remote
       /\ \A t \in Callers :
             (calls'[t].op = "HandleRequest" /\ calls[t].op # "HandleRequest") =>
                 /\ calls[t].op = "handleStream"
                 /\ net.receiver # NilReceiver
       /\ (last'.op = "SetDelegate" /\ last'.receiver # NilReceiver) =>
             /\ net'.receiver = last'.receiver
             /\ ConfiguredProtocols \subseteq net'.handlers
       /\ (last'.op = "StreamOpen" /\ last' # last) =>
             last'.proto \notin net.handlers]_vars

\* a stream on a configured protocol was reset for want of a receiver, and
\* nothing was allocated, indexed or pulled
C32_Witness ==
    /\ last.op = "handleStream"
    /\ last.outcome = "reset"
    /\ last.proto \in ConfiguredProtocols
    /\ net.receiver = NilReceiver
    /\ msNext = 0 /\ pulls = {} /\ DOMAIN index = {}

----------------------------------------------------------------------------
(* Vocabulary of the properties: the streams of a Dispatch *)

\* the request was written to stream st
Wrote(st) == st.wrote

\* the stream to p opened in the last Dispatch
OpenedFor(p) == <<p, "open">> \notin last.faults

(* C33: the streams a Dispatch opens are those of the attempts whose open    *)
(* did not fail, one per attempt; each carries the one request of the call   *)
(* or, when its write fails, nothing; each is closed when Dispatch returns,  *)
(* whether its write succeeded or failed.                                    *)
C33_OneWriteThenClosed ==
    IsDispatch =>
        \A opened \in {SelectSeq(last.attempts, OpenedFor)},
           written \in {SelectSeq(last.streams, Wrote)} :
            /\ Len(last.streams) = Len(opened)
            /\ \A i \in 1..Len(last.streams) :
                  /\ last.streams[i].dest = opened[i]
                  /\ last.streams[i].closed
                  /\ last.streams[i].wrote <=> <<opened[i], "write">> \notin last.faults
            /\ Len(last.delivered) = Len(written)
            /\ \A k \in 1..Len(written) :
                  last.delivered[k] = [to |-> written[k].dest, req |-> last.r]

\* a Dispatch in which the write to one peer fails and the write to another
\* succeeds: both streams are closed
C33_Witness ==
    /\ IsDispatch
    /\ \E i, j \in 1..Len(last.streams) :
          /\ ~last.streams[i].wrote /\ last.streams[i].closed
          /\ last.streams[j].wrote /\ last.streams[j].closed
    /\ Len(last.delivered) = Len(last.streams) - 1

----------------------------------------------------------------------------
(* C34: a HandleRequest whose request fails to decode goes straight to the   *)
(* close of its stream, having allocated no store identifier, written no     *)
(* index entry and opened no pull; every HandleRequest returns through the   *)
(* close of its stream, whatever its outcome.                                *)
C34_DecodeFailureOnlyCloses ==
    [][\A t \in Callers :
          \A c \in {calls[t]}, d \in {calls'[t]} :
              (c.op = "HandleRequest" /\ d # c) =>
                  /\ (c.pc = "read" /\ d.outcome = "decode-failure") =>
                        /\ d.pc = "close"
                        /\ d.storeID = 0
                        /\ msNext' = msNext /\ stores' = stores
                        /\ index' = index /\ pulls' = pulls
                  /\ c.outcome = "decode-failure" =>
                        /\ c.pc = "close"
                        /\ d = Idle
                        /\ last' = [op |-> "HandleRequest", peer |-> c.peer,
                                    cid |-> 0, outcome |-> "decode-failure",
                                    closed |-> TRUE]
                        /\ msNext' = msNext /\ stores' = stores
                        /\ index' = index /\ pulls' = pulls
                  /\ d = Idle =>
                        /\ c.pc = "close"
                        /\ c.outcome \in {"decode-failure", "put-failure",
                                          "pull-failure", "pull-opened"}
                        /\ last'.closed
                        /\ last'.outcome = c.outcome]_vars

\* a request that failed to decode is about to close its stream while the
\* request of another stream has been indexed
C34_Witness ==
    \E t \in Callers :
        /\ calls[t].op = "HandleRequest"
        /\ calls[t].pc = "close"
        /\ calls[t].outcome = "decode-failure"
        /\ calls[t].storeID = 0
        /\ DOMAIN index # {}
        /\ \A ch \in pulls : ch.peer # calls[t].peer

----------------------------------------------------------------------------
(* C35: closing a response never makes the event callback send on a closed   *)
(* record channel: when Close closes the channel of a response whose         *)
(* callback is blocked in its send, the callback thread does not panic.      *)
C35_CloseNeverPanicsCallback ==
    [][\A i \in 1..Len(responses) :
          (/\ thread.st = "sending"
           /\ thread.at = i
           /\ ~responses[i].closed
           /\ responses'[i].closed) => thread'.st # "panicked"]_vars

(* C36: every record read from a response names a remote peer that was       *)
(* authorized for the payload CID of that response, and carries that CID;    *)
(* it never names the local peer.                                            *)
C36_RecordsNameAuthorizedProviders ==
    [][(last'.op = "Next" /\ last'.how = "record" /\ responses' # responses) =>
          /\ last'.rec.PayloadCID = responses[last'.res].cid
          /\ last'.rec.Provider # Self
          /\ <<last'.rec.PayloadCID, last'.rec.Provider>> \in authLog]_vars

----------------------------------------------------------------------------
(* Vocabulary of the properties: content the node holds *)

\* the node holds c: it was registered, or an inbound transfer of it completed
Held(c) ==
    \/ c \in registered
    \/ \E ch \in pulls : ch.root = c /\ ch.status = "Completed"

\* the step is the manager reporting an Error event for c to this node, the
\* recipient, while a pull of c opened by HandleRequest is running
InboundPullFails(c) ==
    /\ \E ch \in pulls : ch.root = c /\ ch.status = "Ongoing"
    /\ last' # last
    /\ last'.op \in {"TransferEvent", "ChannelEvent"}
    /\ last'.code = "Error"
    /\ last'.cid = c
    /\ last'.peer = Self

(* C37: the index entry of a payload CID the node holds survives the Error   *)
(* event of a later inbound pull of the same CID.                            *)
C37_HeldContentSurvivesFailedPull ==
    [][\A c \in DOMAIN index :
          (Held(c) /\ InboundPullFails(c)) => c \in DOMAIN index']_vars

(* C38: a HandleRequest for a payload CID that has an index entry leaves     *)
(* that entry, and the store GetStoreID finds for the CID, as they were.     *)
C38_InboundKeepsMapping ==
    [][(/\ last'.op = "HandleRequest"
        /\ last' # last
        /\ last'.outcome # "decode-failure"
        /\ last'.cid \in DOMAIN index) =>
          /\ last'.cid \in DOMAIN index'
          /\ index'[last'.cid] = index[last'.cid]
          /\ GetStoreID(index', last'.cid) = GetStoreID(index, last'.cid)]_vars

(* C39: the response of a Dispatch that returned the no-peers error is not   *)
(* subscribed to the manager's events, and the callback thread is never      *)
(* held in a send for a response whose CID no Dispatch authorized a peer for. *)
C39_NoPeersLeavesNoSubscription ==
    /\ (IsDispatch /\ last.err = ErrNoPeers) =>
          ~responses[Len(responses)].subscribed
    /\ \A i \in 1..Len(responses) :
          (thread.st = "sending" /\ thread.at = i) =>
              \E p \in Peers : <<responses[i].cid, p>> \in authLog

(* C40: when ValidatePull allows a pull of base CID c and the configurer     *)
(* routes the channel to a store, that store is the one the content index    *)
(* maps c to.                                                                *)
C40_RoutedStoreIsOfBaseCid ==
    [][(/\ last'.op = "PullRequest"
        /\ last'.err = NoErr
        /\ last'.useStore # <<>>) =>
          \A found \in {GetStoreID(index, last'.baseCid)} :
              /\ found.err = NoErr
              /\ last'.useStore = <<found.sid>>]_vars

====
